---- MODULE Spec2Model ----
(***************************************************************************)
(* A model of prisma-mongo-migrator.                                       *)
(*                                                                         *)
(* Spec: the Backfill Engine, MongoBackfillService.backfillCollection and  *)
(* getCollection (src/src/services/backfill.service.ts), called with       *)
(* models and schemas of the caller's choice against a document store that *)
(* can fail at every awaited operation.                                    *)
(*                                                                         *)
(* Pipeline: the backfill and generate-and-backfill commands               *)
(* (src/src/cli.ts): PrismaSchemaParser.parse                              *)
(* (src/src/parsers/prisma.parser.ts), JsonSchemaGenerator.generateSchema  *)
(* (src/src/generators/json-schema.generator.ts) and the Backfill Engine,  *)
(* one model after the other.                                              *)
(*                                                                         *)
(* Parsing: the same commands over schema files with comments, directives, *)
(* repeated names, lines that are no field lines and unclosed blocks.      *)
(*                                                                         *)
(* Scan: the Backfill Engine against a store that answers every operation, *)
(* under weak fairness of the steps of a call.                             *)
(*                                                                         *)
(* Shared: the same with a second client writing to the collection.        *)
(***************************************************************************)
EXTENDS Integers, Sequences, FiniteSets, TLC

\* ------------------------------------------------------------------ bounds
\* The longest collection (number of stored documents) explored.
MaxDocs == 2
\* The number of backfillCollection calls the command loop makes.
MaxCalls == 2

\* ------------------------------------------------------------- JS values
\* A JavaScript value is a tagged literal; t is its native type.
Val(t, v) == [t |-> t, v |-> v]
\* The property is not an own property of the document.
Absent == Val("absent", "")
Null == Val("null", "")
Undefined == Val("undefined", "")
Zero == Val("number", "0")
False == Val("boolean", "false")
True == Val("boolean", "true")
Empty == Val("string", "")
Str == Val("string", "s")
StrX == Val("string", "x")

Fields == {"a", "b"}

\* doc.hasOwnProperty(fieldName)
hasOwnProperty(doc, fieldName) ==
  fieldName \in DOMAIN doc.f /\ doc.f[fieldName] # Absent

\* doc[fieldName]: reading a property that is not there yields undefined.
Get(doc, fieldName) ==
  IF hasOwnProperty(doc, fieldName) THEN doc.f[fieldName] ELSE Undefined

\* ------------------------------------------------- names and their forms
\* model.mapName when the block holds no @@map directive.
NoMap == ""

\* String.prototype.toLowerCase on the names of the model.
toLowerCase(s) ==
  CASE s = "User" -> "user"
    [] s = "Users" -> "users"
    [] s = "Post" -> "post"
    [] s = "Posts" -> "posts"
    [] s = "UserProfile" -> "userprofile"
    [] s = "UserProfiles" -> "userprofiles"
    [] OTHER -> s

\* pluralize.plural: a word that does not end in s gets one (the last
\* matching rule is /s?$/i -> "s"), a word ending in s keeps it.
plural(s) ==
  CASE s = "User" -> "Users"
    [] s = "user" -> "users"
    [] s = "Post" -> "Posts"
    [] s = "post" -> "posts"
    [] s = "UserProfile" -> "UserProfiles"
    [] s = "userprofile" -> "userprofiles"
    [] s = "user-profile" -> "user-profiles"
    [] OTHER -> s

\* change-case-all kebabCase: words split at case changes and at
\* separators, lowercased, joined by "-".
kebabCase(s) ==
  CASE s = "User" -> "user"
    [] s = "Users" -> "users"
    [] s = "Post" -> "post"
    [] s = "Posts" -> "posts"
    [] s = "UserProfile" -> "user-profile"
    [] s = "UserProfiles" -> "user-profiles"
    [] s = "user_profiles" -> "user-profiles"
    [] OTHER -> s

\* [...new Set(attempts)]: the first occurrence of each element, in order.
Dedup(seq) ==
  LET kept(s) ==
        LET firsts == { i \in DOMAIN s : \A j \in 1..(i - 1) : s[j] # s[i] }
        IN [k \in 1..Cardinality(firsts) |->
              s[CHOOSE i \in firsts :
                  Cardinality({ j \in firsts : j < i }) = k - 1]]
  IN CHOOSE d \in { kept(s) : s \in { seq } } : TRUE

\* const collectionName = model.mapName || model.name
\* collectionName that passes the override by: always the declared name.
collectionNameDeclared(model) == model.name

collectionName(model) ==
  IF model.mapName # NoMap THEN model.mapName ELSE model.name

\* attempts with the last entry pluralizing the name instead of its
\* kebab-cased form.
attemptsNoPluralKebab(model) ==
  LET n == collectionName(model)
  IN << n,
        toLowerCase(n),
        plural(n),
        plural(toLowerCase(n)),
        kebabCase(n),
        plural(n) >>

\* The six attempts of getCollection, in the order of the array literal.
attempts(model) ==
  LET n == collectionName(model)
  IN << n,
        toLowerCase(n),
        plural(n),
        plural(toLowerCase(n)),
        kebabCase(n),
        plural(kebabCase(n)) >>

\* uniqueAttempts without the Set: duplicates stay.
uniqueAttemptsWithDuplicates(model) == attempts(model)

\* Line 229.
uniqueAttempts(model) == Dedup(attempts(model))

\* ------------------------------------------------------------ the inputs
Models ==
  { [name |-> "UserProfile", mapName |-> NoMap],
    [name |-> "UserProfile", mapName |-> "user_profiles"] }

\* A JsonSchemaProperty: default is Undefined when the property has none.
Prop(type, dflt) == [type |-> type, default |-> dflt]

\* The ValidationSchemas handed to backfillCollection (their properties).
Schemas ==
  { [a |-> Prop("string", Undefined), b |-> Prop("number", Undefined)],
    [a |-> Prop("string", StrX), b |-> Prop("number", Undefined)],
    [a |-> Prop("boolean", True), b |-> Prop("number", Zero)],
    [a |-> Prop("string", Null), b |-> Prop("number", Undefined)] }

\* The stored field values of a document, the falsy ones included.
DocBodies ==
  { [a |-> Absent, b |-> Null],
    [a |-> Zero, b |-> Undefined],
    [a |-> Empty, b |-> False] }

\* Collections of at most MaxDocs documents; _id is the position at
\* insertion, so identities are unique within a collection.
Contents ==
  UNION { { [i \in 1..n |-> [id |-> i, f |-> bs[i]]] : bs \in [1..n -> DocBodies] }
          : n \in 0..MaxDocs }

\* Every name one of the Models can probe, and one that none probes.
CollNames ==
  UNION { { attempts(m)[i] : i \in DOMAIN attempts(m) } : m \in Models }
    \cup {"posts"}

\* ------------------------------------------------------------------ text
\* Text the program scans character by character is a sequence of
\* one-character strings.
RECURSIVE Join(_)
Join(str) == IF str = <<>> THEN "" ELSE Head(str) \o Join(Tail(str))

\* String.prototype.includes for one character.
includes(str, ch) == \E i \in DOMAIN str : str[i] = ch

startsWith(str, prefix) ==
  Len(prefix) <= Len(str) /\ SubSeq(str, 1, Len(prefix)) = prefix

endsWith(str, suffix) ==
  /\ Len(suffix) <= Len(str)
  /\ SubSeq(str, Len(str) - Len(suffix) + 1, Len(str)) = suffix

\* String.prototype.slice(1, -1)
slice(str) == SubSeq(str, 2, Len(str) - 1)

\* The characters \s matches in the texts at hand: the space, the line end.
Whitespace == {" ", "\n"}

\* The characters \w matches.
WordChars ==
  { "a", "b", "c", "d", "e", "f", "g", "h", "i", "j", "k", "l", "m", "n", "o",
    "p", "q", "r", "s", "t", "u", "v", "w", "x", "y", "z",
    "A", "B", "C", "D", "E", "F", "G", "H", "I", "J", "K", "L", "M", "N", "O",
    "P", "Q", "R", "S", "T", "U", "V", "W", "X", "Y", "Z",
    "0", "1", "2", "3", "4", "5", "6", "7", "8", "9", "_" }

\* String.prototype.trim
RECURSIVE trim(_)
trim(str) ==
  IF str # <<>> /\ Head(str) \in Whitespace THEN trim(Tail(str))
  ELSE IF str # <<>> /\ str[Len(str)] \in Whitespace
       THEN trim(SubSeq(str, 1, Len(str) - 1))
       ELSE str

\* The least of a set of indexes.
Least(set) == CHOOSE i \in set : \A j \in set : i <= j

\* Where a greedy run of characters of set that begins at index i ends: the
\* first index from i on that holds another character, Len(str) + 1 when
\* there is none.
past(str, i, set) ==
  LET others == { j \in i..Len(str) : str[j] \notin set }
  IN IF others # {} THEN Least(others)
     ELSE IF i > Len(str) THEN i ELSE Len(str) + 1

\* String.prototype.indexOf(ch, i), with 0 for "not found".
indexOf(str, ch, i) ==
  LET found == { j \in i..Len(str) : str[j] = ch }
  IN IF found # {} THEN Least(found) ELSE 0

\* The literal word stands in str at index i.
hasAt(str, i, word) ==
  /\ i + Len(word) - 1 <= Len(str)
  /\ SubSeq(str, i, i + Len(word) - 1) = word

\* String.prototype.split(sep) for a one-character separator: the pieces
\* between the separators, the empty ones included.
RECURSIVE split(_, _)
split(str, sep) ==
  IF ~includes(str, sep) THEN << str >>
  ELSE LET i == CHOOSE k \in DOMAIN str :
                  str[k] = sep /\ \A j \in 1..(k - 1) : str[j] # sep
       IN << SubSeq(str, 1, i - 1) >> \o split(SubSeq(str, i + 1, Len(str)), sep)

\* The length of the longest run of characters other than ch at the start.
RECURSIVE runUpTo(_, _)
runUpTo(str, ch) ==
  IF str = <<>> \/ Head(str) = ch THEN 0 ELSE 1 + runUpTo(Tail(str), ch)

AtDefaultOpen == << "@", "d", "e", "f", "a", "u", "l", "t", "(" >>
AtId == << "@", "i", "d" >>
AtUnique == << "@", "u", "n", "i", "q", "u", "e" >>
AtMapId == << "@", "m", "a", "p", "(", "\"", "_", "i", "d", "\"", ")" >>
At == << "@" >>

\* No match of a regular expression: null.
NoMatch == << >>

\* attributesStr.match(/@default\(([^)]+)\)/)[1]: the first place where
\* "@default(" is followed by one or more characters other than ")" and
\* then by ")"; the capture is that run.
RECURSIVE defaultMatch(_)
defaultMatch(str) ==
  IF str = <<>> THEN NoMatch
  ELSE LET rest == SubSeq(str, Len(AtDefaultOpen) + 1, Len(str))
           n == runUpTo(rest, ")")
       IN IF startsWith(str, AtDefaultOpen) /\ n >= 1 /\ n < Len(rest)
          THEN SubSeq(rest, 1, n)
          ELSE defaultMatch(Tail(str))

Digits == {"0", "1", "2", "3", "4", "5", "6", "7", "8", "9"}

DigitValue(ch) ==
  CASE ch = "0" -> 0 [] ch = "1" -> 1 [] ch = "2" -> 2 [] ch = "3" -> 3
    [] ch = "4" -> 4 [] ch = "5" -> 5 [] ch = "6" -> 6 [] ch = "7" -> 7
    [] ch = "8" -> 8 [] ch = "9" -> 9

\* /^\d+$/.test(str)
isDigits(str) == str # <<>> /\ \A i \in DOMAIN str : str[i] \in Digits

\* The number a run of decimal digits denotes.
RECURSIVE digitsValue(_)
digitsValue(str) ==
  IF str = <<>> THEN 0
  ELSE 10 * digitsValue(SubSeq(str, 1, Len(str) - 1)) + DigitValue(str[Len(str)])

\* parseInt(str, 10) of a run of digits, as the number JavaScript prints.
parseInt(str) == Val("number", ToString(digitsValue(str)))

\* A run of digits without its trailing zeros.
RECURSIVE noTrailingZeros(_)
noTrailingZeros(str) ==
  IF str # <<>> /\ str[Len(str)] = "0"
  THEN noTrailingZeros(SubSeq(str, 1, Len(str) - 1)) ELSE str

\* /^\d+\.\d+$/.test(str)
isDecimal(str) ==
  /\ includes(str, ".")
  /\ Len(split(str, ".")) = 2
  /\ isDigits(split(str, ".")[1])
  /\ isDigits(split(str, ".")[2])

\* parseFloat(str) of digits "." digits, as the number JavaScript prints:
\* 7.0 is the number 7, 0.50 the number 0.5.
parseFloat(str) ==
  LET whole == ToString(digitsValue(split(str, ".")[1]))
      frac == noTrailingZeros(split(str, ".")[2])
  IN Val("number", IF frac = <<>> THEN whole ELSE whole \o "." \o Join(frac))

\* parseDefaultValue with the test of line 174 left out: a payload that is
\* no literal is kept as a string, calls included.
parseDefaultValueKeepsCalls(defaultStr) ==
  LET str == trim(defaultStr)
  IN IF startsWith(str, << "\"" >>) /\ endsWith(str, << "\"" >>)
       THEN Val("string", Join(slice(str)))
     ELSE IF str = << "t", "r", "u", "e" >> THEN True
     ELSE IF str = << "f", "a", "l", "s", "e" >> THEN False
     ELSE IF isDigits(str) THEN parseInt(str)
     ELSE IF isDecimal(str) THEN parseFloat(str)
     ELSE Val("string", Join(str))

\* Lines 148-180.
parseDefaultValue(defaultStr) ==
  LET str == trim(defaultStr)
  IN IF startsWith(str, << "\"" >>) /\ endsWith(str, << "\"" >>)
       THEN Val("string", Join(slice(str)))
     ELSE IF str = << "t", "r", "u", "e" >> THEN True
     ELSE IF str = << "f", "a", "l", "s", "e" >> THEN False
     ELSE IF isDigits(str) THEN parseInt(str)
     ELSE IF isDecimal(str) THEN parseFloat(str)
     ELSE IF ~includes(str, "(") THEN Val("string", Join(str))
     ELSE Undefined

\* --------------------------------------------------- the schema as text
\* What a @default carries between its parentheses, as its author wrote it:
\* kind "string" (a holds the characters of the string), "boolean", "int"
\* and "ident" (a holds the literal), "decimal" (a "." b), "call" (a "(" b
\* ")").
Payload(kind, a, b) == [kind |-> kind, a |-> a, b |-> b]

\* The characters of a string literal's content: a quote is written \".
RECURSIVE escape(_)
escape(str) ==
  IF str = <<>> THEN <<>>
  ELSE (IF Head(str) = "\"" THEN << "\\", "\"" >> ELSE << Head(str) >>)
       \o escape(Tail(str))

\* The text of a payload.
payloadText(p) ==
  CASE p.kind = "string" -> << "\"" >> \o escape(p.a) \o << "\"" >>
    [] p.kind = "decimal" -> p.a \o << "." >> \o p.b
    [] p.kind = "call" -> p.a \o << "(" >> \o p.b \o << ")" >>
    [] OTHER -> p.a

\* An attribute of a field line: @id, @unique, @map("_id") or @default(p).
Attr(at, p) == [at |-> at, p |-> p]
NoPayload == Payload("none", <<>>, <<>>)
Id == Attr("id", NoPayload)
Unique == Attr("unique", NoPayload)
MapId == Attr("map", NoPayload)
Default(p) == Attr("default", p)

attrText(attr) ==
  CASE attr.at = "id" -> AtId
    [] attr.at = "unique" -> AtUnique
    [] attr.at = "map" -> AtMapId
    [] attr.at = "default" -> AtDefaultOpen \o payloadText(attr.p) \o << ")" >>

\* A field line of a model block, as the regular expression of line 115
\* splits it: the name, the type with its [] and ?, and the attributes.
FieldLine(name, type, array, q, attrs) ==
  [name |-> name, type |-> type, array |-> array, q |-> q, attrs |-> attrs]

\* Group 3 of line 115: the attributes written one after the other with a
\* space in between.
RECURSIVE attributesStr(_)
attributesStr(attrs) ==
  IF attrs = <<>> THEN <<>>
  ELSE IF Len(attrs) = 1 THEN attrText(attrs[1])
  ELSE attrText(attrs[1]) \o << " " >> \o attributesStr(Tail(attrs))

\* The characters of the names written in the schema files.
chars(name) ==
  CASE name = "id" -> << "i", "d" >>
    [] name = "email" -> << "e", "m", "a", "i", "l" >>
    [] name = "isActive" -> << "i", "s", "A", "c", "t", "i", "v", "e" >>
    [] name = "createdAt" -> << "c", "r", "e", "a", "t", "e", "d", "A", "t" >>
    [] name = "title" -> << "t", "i", "t", "l", "e" >>
    [] name = "tags" -> << "t", "a", "g", "s" >>
    [] name = "model" -> << "m", "o", "d", "e", "l" >>
    [] name = "modelName" -> << "m", "o", "d", "e", "l", "N", "a", "m", "e" >>
    [] name = "String" -> << "S", "t", "r", "i", "n", "g" >>
    [] name = "Int" -> << "I", "n", "t" >>
    [] name = "Float" -> << "F", "l", "o", "a", "t" >>
    [] name = "Boolean" -> << "B", "o", "o", "l", "e", "a", "n" >>
    [] name = "DateTime" -> << "D", "a", "t", "e", "T", "i", "m", "e" >>
    [] name = "Json" -> << "J", "s", "o", "n" >>
    [] name = "Bytes" -> << "B", "y", "t", "e", "s" >>
    [] name = "Role" -> << "R", "o", "l", "e" >>
    [] name = "Post" -> << "P", "o", "s", "t" >>
    [] name = "Unknown" -> << "U", "n", "k", "n", "o", "w", "n" >>
    [] name = "constructor" -> << "c", "o", "n", "s", "t", "r", "u", "c", "t", "o", "r" >>
    [] name = "User" -> << "U", "s", "e", "r" >>
    [] name = "USER" -> << "U", "S", "E", "R" >>
    [] name = "ADMIN" -> << "A", "D", "M", "I", "N" >>
    [] name = "views" -> << "v", "i", "e", "w", "s" >>
    [] name = "BigInt" -> << "B", "i", "g", "I", "n", "t" >>
    [] name = "users" -> << "u", "s", "e", "r", "s" >>

\* A line of a model block that is no field declaration, as its text: a
\* comment, a directive, an empty line, a line of another shape.
Raw(text) == [raw |-> text]

\* The text of a line of a model block.
lineText(line) ==
  IF "raw" \in DOMAIN line THEN line.raw
  ELSE chars(line.name) \o << " " >> \o chars(line.type)
         \o (IF line.array THEN << "[", "]" >> ELSE <<>>)
         \o (IF line.q THEN << "?" >> ELSE <<>>)
         \o (IF line.attrs = <<>> THEN <<>>
             ELSE << " " >> \o attributesStr(line.attrs))

\* The text of a line of an enum block: the label and its comma.
labelText(line) ==
  (IF line.label = "" THEN <<>> ELSE chars(line.label))
    \o (IF line.comma THEN << "," >> ELSE <<>>)

\* The texts of a list written one after the other, each indented on a
\* line of its own.
RECURSIVE indented(_)
indented(texts) ==
  IF texts = <<>> THEN <<>>
  ELSE << " ", " " >> \o Head(texts) \o << "\n" >> \o indented(Tail(texts))

Model == << "m", "o", "d", "e", "l" >>
Enum == << "e", "n", "u", "m" >>
MapOpen == << "@", "@", "m", "a", "p", "(", "\"" >>
MapClose == << "\"", ")" >>

\* The text of a block: the header, the lines, the @@map directive if the
\* block has one and, unless the block is left open, the closing brace.
blockText(keyword, block, lines) ==
  keyword \o << " " >> \o chars(block.name) \o << " ", "{", "\n" >>
    \o indented(lines)
    \o (IF "map" \in DOMAIN block /\ block.map # NoMap
        THEN indented(<< MapOpen \o chars(block.map) \o MapClose >>) ELSE <<>>)
    \o (IF "open" \in DOMAIN block THEN <<>> ELSE << "}", "\n" >>)

enumText(block) ==
  blockText(Enum, block, [i \in DOMAIN block.lines |-> labelText(block.lines[i])])

modelText(block) ==
  blockText(Model, block, [i \in DOMAIN block.lines |-> lineText(block.lines[i])])

\* The texts of a list joined with an empty line after each.
RECURSIVE joined(_)
joined(texts) ==
  IF texts = <<>> THEN <<>>
  ELSE Head(texts) \o << "\n" >> \o joined(Tail(texts))

\* cli.ts lines 174-176: the text of the schema files, the enum blocks
\* before the model blocks.
readFileSync(file) ==
  joined([i \in DOMAIN file.enums |-> enumText(file.enums[i])])
    \o joined([i \in DOMAIN file.models |-> modelText(file.models[i])])

\* ------------------------------------------------------------ the parser
\* line.match(/^(\w+)\s+(\w+(?:\[\])?)\??\s*(.*)/) of line 115: a run of
\* word characters, whitespace, a run of word characters with [] and ?
\* after it if they are there, whitespace, and the rest of the line. Every
\* run is greedy and none can give a character back to what follows it.
fieldMatch(line) ==
  LET n == past(line, 1, WordChars)
      s == past(line, n, Whitespace)
      t == past(line, s, WordChars)
      a == IF hasAt(line, t, << "[", "]" >>) THEN t + 2 ELSE t
      q == IF hasAt(line, a, << "?" >>) THEN a + 1 ELSE a
      r == past(line, q, Whitespace)
  IN IF n > 1 /\ s > n /\ t > s
     THEN [ name |-> SubSeq(line, 1, n - 1),
            typeWithArray |-> SubSeq(line, s, a - 1),
            attributesStr |-> SubSeq(line, r, Len(line)) ]
     ELSE NoMatch

\* Lines 114-146; null for a line the expression does not match.
\* attributesStr.split(/\s+/).filter(startsWith("@")): the pieces between
\* the spaces that begin with "@".
parseFieldLine(line) ==
  LET matched == fieldMatch(line)
      typeWithArray == matched.typeWithArray
      isArray == endsWith(typeWithArray, << "[", "]" >>)
      str == matched.attributesStr
      attributes == SelectSeq(split(str, " "), LAMBDA attr : startsWith(attr, At))
      defaultMatched == defaultMatch(str)
  IN IF matched = NoMatch THEN Null
     ELSE [ name |-> Join(matched.name),
            type |-> Join(IF isArray
                          THEN SubSeq(typeWithArray, 1, Len(typeWithArray) - 2)
                          ELSE typeWithArray),
            isOptional |-> includes(line, "?"),
            isArray |-> isArray,
            defaultValue |-> IF defaultMatched # NoMatch
                             THEN parseDefaultValue(defaultMatched) ELSE Undefined,
            isId |-> \E i \in DOMAIN attributes : startsWith(attributes[i], AtId),
            isUnique |-> \E i \in DOMAIN attributes :
                           startsWith(attributes[i], AtUnique),
            attributes |-> [i \in DOMAIN attributes |-> Join(attributes[i])] ]

\* block.split("\n").map((line) => line.trim())
trimmedLines(block) ==
  LET lines == split(block, "\n")
  IN [i \in DOMAIN lines |-> trim(lines[i])]

\* Lines 89-112: the trimmed lines that are not empty and begin with neither
\* "model", "{" nor "}" (lines 94-100), without those that begin with "//"
\* or "@@" (line 103); each one the expression of line 115 matches gives a
\* field.
parseFields(block) ==
  LET fieldLines ==
        SelectSeq(trimmedLines(block), LAMBDA line :
          /\ line # <<>>
          /\ ~startsWith(line, Model)
          /\ ~startsWith(line, << "{" >>)
          /\ ~startsWith(line, << "}" >>))
      kept ==
        SelectSeq(fieldLines, LAMBDA line :
          ~startsWith(line, << "/", "/" >>) /\ ~startsWith(line, << "@", "@" >>))
      fields == [i \in DOMAIN kept |-> parseFieldLine(kept[i])]
  IN SelectSeq(fields, LAMBDA field : field # Null)

\* block.match(/model\s+(\w+)/)[1] and block.match(/enum\s+(\w+)/)[1] for a
\* block that begins with the keyword, as every extracted block does.
nameMatch(block, keyword) ==
  LET a == past(block, Len(keyword) + 1, Whitespace)
  IN Join(SubSeq(block, a, past(block, a, WordChars) - 1))

\* The match of /@@map\s*\(\s*"([^"]+)"\s*\)/ that begins at index i: its
\* group, or NoMatch.
mapMatchAt(block, i) ==
  LET a == past(block, i + 5, Whitespace)
      b == past(block, a + 1, Whitespace)
      c == indexOf(block, "\"", b + 1)
      d == past(block, c + 1, Whitespace)
  IN IF /\ hasAt(block, i, << "@", "@", "m", "a", "p" >>)
        /\ hasAt(block, a, << "(" >>)
        /\ hasAt(block, b, << "\"" >>)
        /\ c > b + 1
        /\ hasAt(block, d, << ")" >>)
     THEN SubSeq(block, b + 1, c - 1)
     ELSE NoMatch

\* block.match(/@@map\s*\(\s*"([^"]+)"\s*\)/): the group of the leftmost
\* match.
mapMatch(block) ==
  LET starts == { i \in DOMAIN block : mapMatchAt(block, i) # NoMatch }
  IN IF starts # {} THEN mapMatchAt(block, Least(starts)) ELSE NoMatch

\* Lines 75-87: the name, the fields, the name of the @@map directive.
parseModelBlock(block) ==
  [ name |-> nameMatch(block, Model),
    fields |-> parseFields(block),
    mapName |-> IF mapMatch(block) # NoMatch
                THEN Join(mapMatch(block)) ELSE NoMap ]

\* Lines 36-54: the trimmed lines that are not empty and begin with neither
\* "enum", "{" nor "}", with the comma at their end taken off.
parseEnumBlock(block) ==
  LET kept ==
        SelectSeq(trimmedLines(block), LAMBDA line :
          /\ line # <<>>
          /\ ~startsWith(line, Enum)
          /\ ~startsWith(line, << "{" >>)
          /\ ~startsWith(line, << "}" >>))
  IN [ name |-> nameMatch(block, Enum),
       values |-> [i \in DOMAIN kept |->
                     Join(IF endsWith(kept[i], << "," >>)
                          THEN SubSeq(kept[i], 1, Len(kept[i]) - 1)
                          ELSE kept[i])] ]

\* Where the match of /keyword\s+\w+\s*\{[^}]*\}/ that begins at index i
\* ends, 0 when there is none: the keyword, whitespace, a name, the opening
\* brace, and everything up to the first closing brace after it.
blockEnd(schema, keyword, i) ==
  LET a == past(schema, i + Len(keyword), Whitespace)
      b == past(schema, a, WordChars)
      c == past(schema, b, Whitespace)
  IN IF /\ hasAt(schema, i, keyword)
        /\ a > i + Len(keyword)
        /\ b > a
        /\ hasAt(schema, c, << "{" >>)
     THEN indexOf(schema, "}", c + 1)
     ELSE 0

\* schema.match(/keyword\s+\w+\s*\{[^}]*\}/g) from index i on: the matches
\* from left to right, each search beginning where the match before it
\* ended.
RECURSIVE matchBlocks(_, _, _)
matchBlocks(schema, keyword, i) ==
  LET starts == { j \in i..Len(schema) : blockEnd(schema, keyword, j) # 0 }
      start == Least(starts)
      end == blockEnd(schema, keyword, start)
  IN IF starts = {} THEN <<>>
     ELSE << SubSeq(schema, start, end) >> \o matchBlocks(schema, keyword, end + 1)

\* Lines 70-73.
extractModelBlocks(schema) == matchBlocks(schema, Model, 1)

\* Lines 56-68.
extractModels(schema) ==
  LET modelBlocks == extractModelBlocks(schema)
  IN [i \in DOMAIN modelBlocks |-> parseModelBlock(modelBlocks[i])]

\* Lines 22-34.
extractEnums(schema) ==
  LET enumBlocks == matchBlocks(schema, Enum, 1)
  IN [i \in DOMAIN enumBlocks |-> parseEnumBlock(enumBlocks[i])]

\* Lines 12-20.
parse(schema) ==
  [ models |-> extractModels(schema),
    enums |-> extractEnums(schema) ]

\* ---------------------------------------------------------- the generator
isEnum(prismaSchema, typeName) ==
  \E i \in DOMAIN prismaSchema.enums : prismaSchema.enums[i].name = typeName

isModel(prismaSchema, typeName) ==
  \E i \in DOMAIN prismaSchema.models : prismaSchema.models[i].name = typeName

\* typeMap[prismaType], "" for undefined: the seven own keys of the object
\* literal and, as for every object, the keys it inherits from
\* Object.prototype, whose values are functions.
typeMap(prismaType) ==
  CASE prismaType = "String" -> "string"
    [] prismaType = "Int" -> "number"
    [] prismaType = "Float" -> "number"
    [] prismaType = "Boolean" -> "boolean"
    [] prismaType = "DateTime" -> "string"
    [] prismaType = "Json" -> "object"
    [] prismaType = "Bytes" -> "string"
    [] prismaType \in {"constructor", "toString", "valueOf"} -> "[Function]"
    [] OTHER -> ""

\* Lines 194-222.
mapPrismaTypeToJsonSchema(prismaSchema, prismaType) ==
  IF typeMap(prismaType) # "" THEN typeMap(prismaType)
  ELSE IF isEnum(prismaSchema, prismaType) THEN "string"
  ELSE IF isModel(prismaSchema, prismaType) THEN "object"
  ELSE "string"

\* What a JsonSchemaProperty holds for a key it does not have.
NoItems == ""
NoFormat == ""
NoEnum == << "" >>

\* convertFieldToJsonSchema without lines 156-158: no format is added.
convertFieldWithoutFormat(prismaSchema, field) ==
  [ type |-> IF field.isArray THEN "array"
             ELSE mapPrismaTypeToJsonSchema(prismaSchema, field.type),
    items |-> IF field.isArray
              THEN mapPrismaTypeToJsonSchema(prismaSchema, field.type)
              ELSE NoItems,
    default |-> field.defaultValue,
    format |-> NoFormat,
    enum |-> NoEnum ]

\* Lines 138-169.
convertFieldToJsonSchema(prismaSchema, field) ==
  [ type |-> IF field.isArray THEN "array"
             ELSE mapPrismaTypeToJsonSchema(prismaSchema, field.type),
    items |-> IF field.isArray
              THEN mapPrismaTypeToJsonSchema(prismaSchema, field.type)
              ELSE NoItems,
    default |-> field.defaultValue,
    format |-> IF field.type = "DateTime" THEN "date-time" ELSE NoFormat,
    enum |-> IF isEnum(prismaSchema, field.type)
             THEN LET i == CHOOSE k \in DOMAIN prismaSchema.enums :
                             /\ prismaSchema.enums[k].name = field.type
                             /\ \A j \in 1..(k - 1) :
                                  prismaSchema.enums[j].name # field.type
                  IN prismaSchema.enums[i].values
             ELSE NoEnum ]

\* generateSchema without the test of line 101: arrays can be required.
generateSchemaRequiresArrays(prismaSchema, m) ==
  LET kept == SelectSeq(m.fields, LAMBDA field : ~field.isId)
      req == SelectSeq(kept, LAMBDA field :
                 ~field.isOptional /\ field.defaultValue = Undefined)
  IN [ type |-> "object",
       properties |-> [n \in { kept[i].name : i \in DOMAIN kept } |->
                         convertFieldToJsonSchema(prismaSchema,
                           kept[CHOOSE i \in DOMAIN kept : kept[i].name = n])],
       required |-> [i \in DOMAIN req |-> req[i].name] ]

\* generateSchema without the test of line 89: identity fields stay.
generateSchemaKeepsId(prismaSchema, m) ==
  LET kept == m.fields
      req == SelectSeq(kept, LAMBDA field :
                 ~field.isOptional /\ field.defaultValue = Undefined /\ ~field.isArray)
  IN [ type |-> "object",
       properties |-> [n \in { kept[i].name : i \in DOMAIN kept } |->
                         convertFieldToJsonSchema(prismaSchema,
                           kept[CHOOSE i \in DOMAIN kept : kept[i].name = n])],
       required |-> [i \in DOMAIN req |-> req[i].name] ]

\* Lines 84-112: the fields that are not identity fields, in order; a later
\* field of the same name takes the place of an earlier one in properties.
generateSchema(prismaSchema, m) ==
  LET kept == SelectSeq(m.fields, LAMBDA field : ~field.isId)
      last(n) == CHOOSE i \in DOMAIN kept :
                   kept[i].name = n /\ \A j \in DOMAIN kept : kept[j].name = n => j <= i
      req == SelectSeq(kept, LAMBDA field :
                 ~field.isOptional /\ field.defaultValue = Undefined /\ ~field.isArray)
  IN [ type |-> "object",
       properties |-> [n \in { kept[i].name : i \in DOMAIN kept } |->
                         convertFieldToJsonSchema(prismaSchema, kept[last(n)])],
       required |-> [i \in DOMAIN req |-> req[i].name] ]

\* ------------------------------------------------- the schemas scanned
\* The longest string literal and the longest run of digits written as a
\* default.
MaxText == 2
MaxDigits == 2

\* The characters of string literals: a letter, the quote, the
\* parentheses, the question mark, the space.
TextChars == {"a", "\"", "(", ")", "?", " "}
Texts == UNION { [1..n -> TextChars] : n \in 0..MaxText }

DigitChars == {"0", "7"}
Numerals == UNION { [1..n -> DigitChars] : n \in 1..MaxDigits }

PayloadTrue == Payload("boolean", << "t", "r", "u", "e" >>, <<>>)
PayloadFalse == Payload("boolean", << "f", "a", "l", "s", "e" >>, <<>>)
PayloadAdmin == Payload("ident", << "A", "D", "M", "I", "N" >>, <<>>)
PayloadNow == Payload("call", << "n", "o", "w" >>, <<>>)
PayloadAuto == Payload("call", << "a", "u", "t", "o" >>, <<>>)
PayloadDbGenerated ==
  Payload("call", << "d", "b", "g", "e", "n", "e", "r", "a", "t", "e", "d" >>,
          << "\"", "x", "\"" >>)

\* The payloads written: string literals, booleans, integer and decimal
\* literals, an enum member, calls.
Payloads ==
  { Payload("string", t, <<>>) : t \in Texts }
    \cup { PayloadTrue, PayloadFalse, PayloadAdmin }
    \cup { Payload("int", d, <<>>) : d \in Numerals }
    \cup { Payload("decimal", d, e) : d \in Numerals, e \in Numerals }
    \cup { PayloadNow, PayloadAuto, PayloadDbGenerated }

\* The type names written: the primitives, the enum and the model the
\* schema declares, a name it does not declare, a name every object
\* inherits as a key.
TypeNames ==
  { "String", "Int", "Float", "Boolean", "DateTime", "Json", "Bytes",
    "Role", "Post", "Unknown", "constructor" }

\* Lines that vary the type, [] and ?.
TypeLines ==
  { FieldLine("isActive", t, array, q, <<>>) :
      t \in TypeNames, array \in BOOLEAN, q \in BOOLEAN }

\* Lines that vary the @default.
DefaultLines ==
  { FieldLine("isActive", "String", FALSE, FALSE, << Default(p) >>) :
      p \in Payloads }

\* Lines that vary the other attributes.
AttrLines ==
  { FieldLine("isActive", "String", array, q, attrs) :
      array \in BOOLEAN, q \in BOOLEAN,
      attrs \in { << Id >>, << Unique >>, << Id, Default(PayloadAuto), MapId >>,
                  << Unique, Default(PayloadTrue) >> } }

\* Lines whose @default is valid for their type while the type is none of
\* typeMap's keys or an array: views BigInt @default(0), tags String[]
\* @default([]).
TypedDefaultLines ==
  { FieldLine("views", "BigInt", FALSE, FALSE,
              << Default(Payload("int", << "0" >>, <<>>)) >>),
    FieldLine("tags", "String", TRUE, FALSE,
              << Default(Payload("ident", << "[", "]" >>, <<>>)) >>) }

\* What follows the name on the lines of the models of two fields.
Shapes ==
  { [type |-> "String", array |-> FALSE, q |-> FALSE, attrs |-> <<>>],
    [type |-> "Int", array |-> FALSE, q |-> TRUE, attrs |-> <<>>],
    [type |-> "Role", array |-> TRUE, q |-> FALSE, attrs |-> <<>>],
    [type |-> "String", array |-> FALSE, q |-> FALSE, attrs |-> << Id >>],
    [type |-> "Boolean", array |-> FALSE, q |-> FALSE,
     attrs |-> << Default(PayloadFalse) >>],
    [type |-> "DateTime", array |-> FALSE, q |-> FALSE,
     attrs |-> << Default(PayloadNow) >>] }

Shaped(name, sh) == FieldLine(name, sh.type, sh.array, sh.q, sh.attrs)

\* model User { id String @id; email String; isActive Boolean
\* @default(true); createdAt DateTime @default(now()) }
UserLines ==
  << FieldLine("id", "String", FALSE, FALSE, << Id >>),
     FieldLine("email", "String", FALSE, FALSE, <<>>),
     FieldLine("isActive", "Boolean", FALSE, FALSE, << Default(PayloadTrue) >>),
     FieldLine("createdAt", "DateTime", FALSE, FALSE, << Default(PayloadNow) >>) >>

\* modelName String: a required field whose name begins with the letters
\* of the keyword model.
ModelNameLine == FieldLine("modelName", "String", FALSE, FALSE, <<>>)

\* The field lines of the model blocks scanned: one line, two lines, the
\* four lines of User.
LineSeqs ==
  { << l >> : l \in TypeLines \cup DefaultLines \cup AttrLines }
    \cup { << l >> : l \in TypedDefaultLines }
    \cup { << Shaped("email", s1), Shaped("isActive", s2) >> :
             s1 \in Shapes, s2 \in Shapes }
    \cup { << Shaped("email", s1), ModelNameLine >> : s1 \in Shapes }
    \cup { UserLines }

Block(name, map, lines) == [name |-> name, map |-> map, lines |-> lines]

\* model Post { title String }
PostBlock == Block("Post", NoMap, << FieldLine("title", "String", FALSE, FALSE, <<>>) >>)

\* enum Role { USER, <an empty line> ADMIN }
RoleBlock ==
  [ name |-> "Role",
    lines |-> << [label |-> "USER", comma |-> TRUE],
                 [label |-> "", comma |-> FALSE],
                 [label |-> "ADMIN", comma |-> FALSE] >> ]

\* A schema file: the enum, the model User with lines, the model Post.
SchemaContent(lines) ==
  [ enums |-> << RoleBlock >>,
    models |-> << Block("User", NoMap, lines), PostBlock >> ]

SchemaContents == { SchemaContent(lines) : lines \in LineSeqs }

\* ------------------------------------- the schema files Parsing scans
\* The most lines the model block of User holds.
MaxLines == 3

\* Lines that declare no field: a comment, a directive, an empty line, a
\* name without a type.
Comment == Raw(<< "/", "/", " ", "n", "o", "t", "e" >>)
Index == Raw(<< "@", "@", "i", "n", "d", "e", "x", "(", "[", "e", "m", "a", "i", "l", "]", ")" >>)
EmptyLine == Raw(<<>>)
NameOnly == Raw(<< "e", "m", "a", "i", "l" >>)

\* The lines the block of User is made of: field declarations, of which
\* two declare email and one a name that begins with "model", and lines
\* that declare nothing.
OddLines ==
  { FieldLine("email", "String", FALSE, FALSE, <<>>),
    FieldLine("email", "Int", TRUE, FALSE, <<>>),
    FieldLine("isActive", "Boolean", FALSE, FALSE, << Default(PayloadTrue) >>),
    FieldLine("modelName", "String", FALSE, TRUE, <<>>),
    Comment, Index, EmptyLine, NameOnly }

OddLineSeqs == UNION { [1..n -> OddLines] : n \in 1..MaxLines }

\* A block whose closing brace is missing.
Open(block) ==
  [name |-> block.name, map |-> block.map, lines |-> block.lines, open |-> TRUE]

\* Schema files: the enum, the model User with lines, its closing brace
\* there or missing, the model Post.
OddContents ==
  { [ enums |-> << RoleBlock >>, models |-> << user, PostBlock >> ] :
      user \in UNION { { Block("User", NoMap, lines),
                         Open(Block("User", NoMap, lines)) } :
                       lines \in OddLineSeqs } }

\* ------------------------------------------------------ the command line
\* A flag that is not on the command line.
NotGiven == "<not given>"

\* "mongodb://localhost:27017", the default of --connection.
DefaultConnection ==
  << "m", "o", "n", "g", "o", "d", "b", ":", "/", "/", "l", "o", "c", "a",
     "l", "h", "o", "s", "t", ":", "2", "7", "0", "1", "7" >>

\* "mongodb://h/app"
AppConnection ==
  << "m", "o", "n", "g", "o", "d", "b", ":", "/", "/", "h", "/", "a", "p", "p" >>

\* The command lines: the command, --database, --connection, --model.
Argvs ==
  [ command : {"backfill", "generate-and-backfill"},
    database : {NotGiven, "mydb", "none"},
    connection : {NotGiven, AppConnection},
    model : {NotGiven, "User", "Nobody"} ]

\* cli.ts lines 85-123: the options commander hands to the command, each
\* flag that is not given replaced by its default.
optionsOf(argv) ==
  [ database |-> IF argv.database # NotGiven THEN argv.database
                 ELSE IF argv.command = "backfill" THEN "none" ELSE "test",
    connection |-> IF argv.connection # NotGiven THEN argv.connection
                   ELSE DefaultConnection,
    model |-> IF argv.model # NotGiven THEN argv.model ELSE "" ]

\* cli.ts lines 341-343 and 409-411: the database name handed to
\* MongoBackfillService.
databaseName(options) ==
  IF options.database # "none" THEN options.database
  ELSE LET parts == split(options.connection, "/")
       IN Join(parts[Len(parts)])

\* cli.ts lines 346-348 and 413-415.
modelsToProcessOf(options, models) ==
  IF options.model # "" THEN SelectSeq(models, LAMBDA m : m.name = options.model)
  ELSE models

\* ------------------------------------------------------------- the state
VARIABLES
  store,        \* collection name -> sequence of documents (iteration order)
  connOpen,     \* the MongoClient holds an open connection
  pc,           \* where backfillCollection stands; "idle" between calls
  model,        \* the PrismaModel of the call
  schema,       \* the properties of the JsonSchema of the call
  todo,         \* uniqueAttempts not yet probed
  collection,   \* the collection getCollection returned, NoColl for null
  cursor,       \* how many documents the cursor has handed out
  doc,          \* the document cursor.next() returned
  update,       \* the update document built for doc
  updatedCount, \* the counter of line 149
  outcome,      \* how the last call ended
  reported,     \* the count printed by the completion message
  calls,        \* calls of backfillCollection made by the command
  aborted,      \* an error left backfillCollection and ended the command
  before,       \* the store when the call began
  probed,       \* the probes of the call: name, whether indexes() answered
  lost,         \* the call caught a connectivity failure of a probe
  applied,      \* the updates applied by the call: document read, update
  hist,         \* the phases the call went through
  lastOp,       \* the last store operation and the state it ran in
  prior,        \* the call before this one: "repeat" when it was the
                \* same call and completed with no store failure,
                \* "notfound" when it found no collection, or "other"
  argv,            \* the command line: the command and its flags
  schemaContent,   \* the text of the schema files
  prismaSchema,    \* this.schema: what parse() returned
  database,        \* the database name handed to MongoBackfillService
  modelsToProcess, \* the models the command's loop has not reached
  jsonSchema,      \* what generateSchema returned for the model at hand
  at               \* where the command stands

\* The state of the Backfill Engine and of the store.
engine == << store, connOpen, pc, model, schema, todo, collection, cursor, doc,
             update, updatedCount, outcome, reported, calls, aborted, before,
             probed, lost, applied, hist, lastOp, prior >>

\* The state of the command around it.
cli == << argv, schemaContent, prismaSchema, database, modelsToProcess,
          jsonSchema, at >>

vars == << engine, cli >>

NoColl == ""
NoDoc == [id |-> 0, f |-> [x \in Fields |-> Absent]]
NoUpdate == [x \in {} |-> Absent]
NoOp == [kind |-> "none", open |-> FALSE, resolved |-> FALSE]
NoArgv == [command |-> "", database |-> NotGiven, connection |-> NotGiven,
           model |-> NotGiven]
NoSchema == [enums |-> <<>>, models |-> <<>>]
NoJsonSchema == [type |-> "", properties |-> NoUpdate, required |-> <<>>]

\* --------------------------------------------------- backfillCollection
\* fieldsWithDefaults with the filter left out: every property counts.
fieldsWithDefaultsUnfiltered(s) == DOMAIN s

\* Object.entries(schema.properties).filter(default !== undefined)
fieldsWithDefaults(s) == { x \in DOMAIN s : s[x].default # Undefined }

\* buildUpdate with the test of lines 159-161 written as !doc[fieldName]:
\* every falsy value counts as missing.
buildUpdateFalsy(s, d) ==
  LET gaps == { x \in DOMAIN s :
                  /\ s[x].default # Undefined
                  /\ Get(d, x) \in {Undefined, Null, Zero, False, Empty} }
  IN [x \in gaps |-> s[x].default]

\* The loop of lines 155-165: a defaulted field goes into the update when
\* the document does not own it or holds null or undefined in it.
buildUpdate(s, d) ==
  LET gaps == { x \in DOMAIN s :
                  /\ s[x].default # Undefined
                  /\ \/ ~hasOwnProperty(d, x)
                     \/ Get(d, x) = Null
                     \/ Get(d, x) = Undefined }
  IN [x \in gaps |-> s[x].default]

\* updateOne that writes only one of the fields of the update document.
updateOnePartial(docs, id, upd) ==
  LET one == CHOOSE x \in DOMAIN upd : TRUE
  IN [i \in DOMAIN docs |->
        IF docs[i].id = id
        THEN [docs[i] EXCEPT !.f =
                [x \in DOMAIN @ \cup {one} |->
                   IF x = one THEN upd[x] ELSE @[x]]]
        ELSE docs[i]]

\* updateOne with the update document passed without $set: the document is
\* replaced by it.
updateOneReplace(docs, id, upd) ==
  [i \in DOMAIN docs |->
     IF docs[i].id = id
     THEN [docs[i] EXCEPT !.f =
             [x \in DOMAIN @ \cup DOMAIN upd |->
                IF x \in DOMAIN upd THEN upd[x] ELSE Absent]]
     ELSE docs[i]]

\* updateOne written as updateMany with an empty filter: every document of
\* the collection takes the update.
updateOneEveryRecord(docs, id, upd) ==
  [i \in DOMAIN docs |->
     [docs[i] EXCEPT !.f =
        [x \in DOMAIN @ \cup DOMAIN upd |->
           IF x \in DOMAIN upd THEN upd[x] ELSE @[x]]]]

\* collection.updateOne({ _id: id }, { $set: upd }) on the documents of one
\* collection: the fields of upd replace or extend those of the document
\* with that _id, every other field and document stays.
updateOne(docs, id, upd) ==
  [i \in DOMAIN docs |->
     IF docs[i].id = id
     THEN [docs[i] EXCEPT !.f =
             [x \in DOMAIN @ \cup DOMAIN upd |->
                IF x \in DOMAIN upd THEN upd[x] ELSE @[x]]]
     ELSE docs[i]]

\* The states of the call's state machine, read off the program counter.
PhaseOf(p, o) ==
  CASE p = "connect" -> "Idle"
    [] p = "probe" -> "Connected"
    [] p = "resolved" -> "CollectionResolved"
    [] p \in {"stream", "update"} -> "Streaming"
    [] p = "idle" /\ o = "error" -> "Failed"
    [] OTHER -> "Closed"

\* hist gains the state the step enters, when the step changes it.
TrackFrom(h) ==
  hist' = IF PhaseOf(pc', outcome') = h[Len(h)]
          THEN h ELSE Append(h, PhaseOf(pc', outcome'))

Track == TrackFrom(hist)

Op(kind) == [kind |-> kind, open |-> connOpen, resolved |-> collection # NoColl]

\* What every entry into backfillCollection resets.
Enter(m, s) ==
  /\ pc = "idle" /\ ~aborted /\ calls < MaxCalls
  /\ model' = m /\ schema' = s
  /\ before' = store
  /\ probed' = <<>> /\ lost' = FALSE /\ applied' = <<>>
  /\ todo' = <<>> /\ collection' = NoColl
  /\ cursor' = 0 /\ doc' = NoDoc /\ update' = NoUpdate
  /\ updatedCount' = 0 /\ reported' = 0
  /\ lastOp' = NoOp
  /\ prior' = IF outcome = "completed" /\ ~lost /\ m = model /\ s = schema
               THEN "repeat"
               ELSE IF outcome = "notfound" THEN "notfound" ELSE "other"

\* The call ends by return (how) or by an error leaving it ("error").
Leave(how) ==
  /\ pc' = "idle"
  /\ outcome' = how
  /\ calls' = calls + 1
  /\ aborted' = (how = "error")

\* Lines 106-115: no property carries a default; the call returns before
\* it connects.
SkipWith(m, s) ==
  /\ fieldsWithDefaults(s) = {}
  /\ Enter(m, s)
  /\ Leave("skipped")
  /\ TrackFrom(<< "Idle" >>)
  /\ UNCHANGED << store, connOpen >>

\* The call with a model and a schema of the command's choice.
Skip == \E m \in Models, s \in Schemas : SkipWith(m, s) /\ UNCHANGED cli

\* Lines 106-134: some property carries a default; the call goes on to
\* connect.
BeginWith(m, s) ==
  /\ fieldsWithDefaults(s) # {}
  /\ Enter(m, s)
  /\ pc' = "connect"
  /\ outcome' = "running"
  /\ TrackFrom(<< "Idle" >>)
  /\ UNCHANGED << store, connOpen, calls, aborted >>

\* The call with a model and a schema of the command's choice.
Begin == \E m \in Models, s \in Schemas : BeginWith(m, s) /\ UNCHANGED cli

\* Connect with the await of line 136 left out: getCollection starts
\* while the connection is not open yet.
ConnectNotAwaited ==
  /\ pc = "connect"
  /\ connOpen' = connOpen
  /\ pc' = "probe"
  /\ todo' = uniqueAttempts(model)
  /\ Track
  /\ lastOp' = Op("connect")
  /\ UNCHANGED << store, model, schema, collection, cursor, doc, update,
                  updatedCount, outcome, reported, calls, aborted, before,
                  probed, lost, applied, prior >>
  /\ UNCHANGED cli

\* Line 136 resolves, lines 137-229 run: db(), the attempts.
Connect ==
  /\ pc = "connect"
  /\ connOpen' = TRUE
  /\ pc' = "probe"
  /\ todo' = uniqueAttempts(model)
  /\ Track
  /\ lastOp' = Op("connect")
  /\ UNCHANGED << store, model, schema, collection, cursor, doc, update,
                  updatedCount, outcome, reported, calls, aborted, before,
                  probed, lost, applied, prior >>
  /\ UNCHANGED cli

\* An error leaves backfillCollection: nothing catches it, no close runs.
Throw ==
  /\ Leave("error")
  /\ Track
  /\ UNCHANGED << store, connOpen, model, schema, todo, collection, cursor,
                  doc, update, updatedCount, reported, before, probed, lost,
                  applied, prior >>
  /\ UNCHANGED cli

\* Line 136 rejects: the store cannot be reached or refuses the login.
ConnectFail ==
  /\ pc = "connect"
  /\ lastOp' = Op("connect")
  /\ Throw


\* One step of getCollection's loop, lines 231-241: the attempt is taken off
\* the list and its outcome recorded; after the last failed attempt the
\* loop ends and getCollection returns null.
Probed(ok, unreachable) ==
  /\ pc = "probe" /\ todo # <<>>
  /\ probed' = Append(probed, [name |-> Head(todo), ok |-> ok])
  /\ lost' = (lost \/ unreachable)
  /\ lastOp' = Op("probe")
  /\ UNCHANGED << store, connOpen, model, schema, cursor, doc, update,
                  updatedCount, outcome, reported, calls, aborted, before,
                  applied, prior >>
  /\ UNCHANGED cli

\* The catch of lines 238-240: whatever indexes() threw, try the next.
Caught ==
  /\ todo' = Tail(todo)
  /\ collection' = NoColl
  /\ pc' = IF Tail(todo) = <<>> THEN "resolved" ELSE "probe"
  /\ Track

\* collection.indexes() answers: the collection exists; it is returned.
ProbeFound ==
  /\ Probed(TRUE, FALSE)
  /\ Head(todo) \in DOMAIN store
  /\ collection' = Head(todo)
  /\ todo' = Tail(todo)
  /\ pc' = "resolved"
  /\ Track

\* collection.indexes() rejects because the namespace does not exist.
ProbeMissing ==
  /\ Probed(FALSE, FALSE)
  /\ Head(todo) \notin DOMAIN store
  /\ Caught

\* collection.indexes() rejects because the store cannot be reached.
ProbeUnreachable ==
  /\ Probed(FALSE, TRUE)
  /\ Caught

\* NotFound raising an error instead of returning.
NotFoundThrows ==
  /\ pc = "resolved" /\ collection = NoColl
  /\ connOpen' = FALSE
  /\ lastOp' = Op("close")
  /\ Leave("error")
  /\ Track
  /\ UNCHANGED << store, model, schema, todo, collection, cursor, doc,
                  update, updatedCount, reported, before, probed, lost,
                  applied, prior >>
  /\ UNCHANGED cli

\* Lines 140-146: getCollection returned null.
NotFound ==
  /\ pc = "resolved" /\ collection = NoColl
  /\ connOpen' = FALSE
  /\ lastOp' = Op("close")
  /\ Leave("notfound")
  /\ Track
  /\ UNCHANGED << store, model, schema, todo, collection, cursor, doc,
                  update, updatedCount, reported, before, probed, lost, applied,
                  prior >>
  /\ UNCHANGED cli

\* Lines 148-149: the cursor over the whole collection, the counter.
Find ==
  /\ pc = "resolved" /\ collection # NoColl
  /\ cursor' = 0
  /\ updatedCount' = 0
  /\ pc' = "stream"
  /\ Track
  /\ UNCHANGED << store, connOpen, model, schema, todo, collection, doc,
                  update, outcome, reported, calls, aborted, before, probed, lost,
                  applied, lastOp, prior >>
  /\ UNCHANGED cli

\* Read with a cursor that steps over a document whenever two are left:
\* next() hands out every second one.
ReadSkipsRecord ==
  /\ pc = "stream" /\ cursor < Len(store[collection])
  /\ cursor' = IF cursor + 2 <= Len(store[collection])
               THEN cursor + 2 ELSE cursor + 1
  /\ doc' = store[collection][cursor']
  /\ update' = buildUpdate(schema, doc')
  /\ pc' = IF DOMAIN update' # {} THEN "update" ELSE "stream"
  /\ lastOp' = Op("read")
  /\ Track
  /\ UNCHANGED << store, connOpen, model, schema, todo, collection,
                  updatedCount, outcome, reported, calls, aborted, before,
                  probed, lost, applied, prior >>
  /\ UNCHANGED cli

\* Lines 151-167: hasNext() answers true, next() hands out the document,
\* the update document is built; an empty one sends the loop round again.
Read ==
  /\ pc = "stream" /\ cursor < Len(store[collection])
  /\ cursor' = cursor + 1
  /\ doc' = store[collection][cursor + 1]
  /\ update' = buildUpdate(schema, doc')
  /\ pc' = IF DOMAIN update' # {} THEN "update" ELSE "stream"
  /\ lastOp' = Op("read")
  /\ Track
  /\ UNCHANGED << store, connOpen, model, schema, todo, collection,
                  updatedCount, outcome, reported, calls, aborted, before,
                  probed, lost, applied, prior >>
  /\ UNCHANGED cli

\* cursor.hasNext() or cursor.next() rejects.
ReadFail ==
  /\ pc = "stream"
  /\ lastOp' = Op("read")
  /\ Throw

\* Update with the await of line 168 left out: the loop goes on to the
\* next record while the write has not reached the store.
UpdateNotAwaited ==
  /\ pc = "update"
  /\ store' = store
  /\ updatedCount' = updatedCount + 1
  /\ applied' = Append(applied, [doc |-> doc, update |-> update])
  /\ pc' = "stream"
  /\ lastOp' = Op("update")
  /\ Track
  /\ UNCHANGED << connOpen, model, schema, todo, collection, cursor, doc,
                  update, outcome, reported, calls, aborted, before, probed,
                  lost, prior >>
  /\ UNCHANGED cli

\* Lines 168-169: the update is applied, then counted.
Update ==
  /\ pc = "update"
  /\ store' = [store EXCEPT ![collection] = updateOne(@, doc.id, update)]
  /\ updatedCount' = updatedCount + 1
  /\ applied' = Append(applied, [doc |-> doc, update |-> update])
  /\ pc' = "stream"
  /\ lastOp' = Op("update")
  /\ Track
  /\ UNCHANGED << connOpen, model, schema, todo, collection, cursor, doc,
                  update, outcome, reported, calls, aborted, before, probed,
                  lost, prior >>
  /\ UNCHANGED cli

\* collection.updateOne rejects: nothing is written.
UpdateFail ==
  /\ pc = "update"
  /\ lastOp' = Op("update")
  /\ Throw

\* collection.updateOne rejects after the store applied the write: the
\* acknowledgement is lost, the record holds its update, nothing counts it.
UpdateFailAfterWrite ==
  /\ pc = "update"
  /\ store' = [store EXCEPT ![collection] = updateOne(@, doc.id, update)]
  /\ applied' = Append(applied, [doc |-> doc, update |-> update])
  /\ lastOp' = Op("update")
  /\ Leave("error")
  /\ Track
  /\ UNCHANGED << connOpen, model, schema, todo, collection, cursor, doc,
                  update, updatedCount, reported, before, probed, lost,
                  prior >>
  /\ UNCHANGED cli

\* Lines 151, 173-177: hasNext() answers false, the connection is closed,
\* the count is printed.
Close ==
  /\ pc = "stream" /\ cursor >= Len(store[collection])
  /\ connOpen' = FALSE
  /\ reported' = updatedCount
  /\ lastOp' = Op("close")
  /\ Leave("completed")
  /\ Track
  /\ UNCHANGED << store, model, schema, todo, collection, cursor, doc,
                  update, updatedCount, before, probed, lost, applied, prior >>
  /\ UNCHANGED cli

\* A value another client of the store writes.
Theirs == Val("string", "theirs")

\* updateOne of another client of the store while the scan is under way:
\* it sets one field of one record of the resolved collection to a value
\* of its own. Nothing in lines 148-171 keeps it out.
OtherClientWrites ==
  /\ pc \in {"stream", "update"}
  /\ \E i \in DOMAIN store[collection], x \in Fields :
       LET docs == store[collection]
       IN /\ docs[i].f[x] # Theirs
          /\ store' = [store EXCEPT ![collection] =
                         updateOne(docs, docs[i].id, [y \in {x} |-> Theirs])]
  /\ UNCHANGED << connOpen, pc, model, schema, todo, collection, cursor, doc,
                  update, updatedCount, outcome, reported, calls, aborted,
                  before, probed, lost, applied, hist, lastOp, prior >>
  /\ UNCHANGED cli

\* ----------------------------------------------------------- the command
\* cli.ts lines 159-190, called at lines 335 and 398: the schema files are
\* read and parsed.
LoadSchemas ==
  /\ at = "start"
  /\ prismaSchema' = parse(readFileSync(schemaContent))
  /\ at' = "loaded"
  /\ UNCHANGED << engine, argv, schemaContent, database, modelsToProcess,
                  jsonSchema >>

\* cli.ts lines 338-355 and 401-422: the service is made with the database
\* name, the models to process are picked; the command returns when there
\* are none.
NewService ==
  /\ at = "loaded"
  /\ database' = databaseName(optionsOf(argv))
  /\ modelsToProcess' = modelsToProcessOf(optionsOf(argv), prismaSchema.models)
  /\ at' = IF modelsToProcess' = <<>> THEN "done" ELSE "loop"
  /\ UNCHANGED << engine, argv, schemaContent, prismaSchema, jsonSchema >>

\* cli.ts lines 357-358 and 424-425: the loop takes the next model once
\* the call for the one before it has returned, and generates its schema.
Generate ==
  /\ at = "loop" /\ pc = "idle" /\ ~aborted
  /\ modelsToProcess # <<>>
  /\ jsonSchema' = generateSchema(prismaSchema, Head(modelsToProcess))
  /\ at' = "call"
  /\ UNCHANGED << engine, argv, schemaContent, prismaSchema, database,
                  modelsToProcess >>

\* cli.ts lines 359 and 426: the call with the model and its schema.
Called ==
  /\ at = "call"
  /\ modelsToProcess' = Tail(modelsToProcess)
  /\ at' = "loop"
  /\ UNCHANGED << argv, schemaContent, prismaSchema, database, jsonSchema >>

\* The generated schema carries no default: the call returns at once.
SkipGenerated ==
  /\ Called
  /\ SkipWith(Head(modelsToProcess), jsonSchema.properties)

\* The generated schema carries a default: the call goes on to connect.
BeginGenerated ==
  /\ Called
  /\ BeginWith(Head(modelsToProcess), jsonSchema.properties)

\* ------------------------------------------------------ specification
\* How many collections the stores of InitNames hold.
MaxColls == 2

\* Stores that vary the documents: every collection holds the same ones.
InitDocs ==
  \E docs \in Contents :
    store = [c \in {"UserProfile", "user-profiles"} |-> docs]

\* Stores that vary the collection names, each holding one document.
InitNames ==
  \E names \in { n \in SUBSET CollNames : Cardinality(n) <= MaxColls } :
    store = [c \in names |-> << [id |-> 1, f |-> [a |-> Absent, b |-> Zero]] >>]

Init ==
  /\ InitDocs \/ InitNames
  /\ connOpen = FALSE
  /\ pc = "idle"
  /\ model = [name |-> "", mapName |-> NoMap]
  /\ schema = [x \in Fields |-> Prop("", Undefined)]
  /\ todo = <<>>
  /\ collection = NoColl
  /\ cursor = 0
  /\ doc = NoDoc
  /\ update = NoUpdate
  /\ updatedCount = 0
  /\ outcome = "none"
  /\ reported = 0
  /\ calls = 0
  /\ aborted = FALSE
  /\ before = store
  /\ probed = <<>>
  /\ lost = FALSE
  /\ applied = <<>>
  /\ hist = <<>>
  /\ lastOp = NoOp
  /\ prior = "other"
  /\ argv = NoArgv
  /\ schemaContent = NoSchema
  /\ prismaSchema = NoSchema
  /\ database = ""
  /\ modelsToProcess = <<>>
  /\ jsonSchema = NoJsonSchema
  /\ at = "none"

Next ==
  \/ Skip
  \/ Begin
  \/ Connect
  \/ ConnectFail
  \/ ProbeFound
  \/ ProbeMissing
  \/ ProbeUnreachable
  \/ NotFound
  \/ Find
  \/ Read
  \/ ReadFail
  \/ Update
  \/ UpdateFail
  \/ UpdateFailAfterWrite
  \/ Close

Spec == Init /\ [][Next]_vars

\* --------------------- specification of a store with a second client
\* The calls of a store that always answers, and another client that
\* writes to the collection being scanned.
NextShared ==
  \/ Skip
  \/ Begin
  \/ Connect
  \/ ProbeFound
  \/ ProbeMissing
  \/ NotFound
  \/ Find
  \/ Read
  \/ Update
  \/ Close
  \/ OtherClientWrites

Shared == Init /\ [][NextShared]_vars

\* ------------------------- specification of a store that always answers
\* The calls of Spec against a store none of whose operations fails.
NextScan ==
  \/ Skip
  \/ Begin
  \/ Connect
  \/ ProbeFound
  \/ ProbeMissing
  \/ NotFound
  \/ Find
  \/ Read
  \/ Update
  \/ Close

\* The steps of a call that has begun: each awaits a store operation, and
\* goes on when the store answers.
Step ==
  \/ Connect
  \/ ProbeFound
  \/ ProbeMissing
  \/ NotFound
  \/ Find
  \/ Read
  \/ Update
  \/ Close

\* The store answers every operation: a call that has begun goes on.
Scan == Init /\ [][NextScan]_vars /\ WF_vars(Step)

\* ----------------------------------- specification of the whole command
\* { _id: 1, email: "a@b.com" }
UserRecord == [id |-> 1, f |-> [email |-> Val("string", "a@b.com")]]

\* The stores the command runs against: the collection users holding the
\* one record, or two records of which one has isActive set to false.
UserStore == [c \in {"users"} |-> << UserRecord >>]

UserStores ==
  { UserStore,
    [c \in {"users"} |->
       << [id |-> 1, f |-> [email |-> Val("string", "a@b.com"), isActive |-> False]],
          [id |-> 2, f |-> [email |-> Null]] >>] }

\* backfill --database mydb
PlainArgv == [command |-> "backfill", database |-> "mydb",
              connection |-> NotGiven, model |-> NotGiven]

\* The command starts with its command line and the schema files given.
InitPipeline ==
  /\ \/ /\ argv = PlainArgv
        /\ schemaContent \in SchemaContents
        /\ store \in UserStores
     \/ /\ argv \in Argvs
        /\ schemaContent = SchemaContent(UserLines)
        /\ store = UserStore
  /\ connOpen = FALSE
  /\ pc = "idle"
  /\ model = [name |-> "", mapName |-> NoMap]
  /\ schema = NoUpdate
  /\ todo = <<>>
  /\ collection = NoColl
  /\ cursor = 0
  /\ doc = NoDoc
  /\ update = NoUpdate
  /\ updatedCount = 0
  /\ outcome = "none"
  /\ reported = 0
  /\ calls = 0
  /\ aborted = FALSE
  /\ before = store
  /\ probed = <<>>
  /\ lost = FALSE
  /\ applied = <<>>
  /\ hist = <<>>
  /\ lastOp = NoOp
  /\ prior = "other"
  /\ prismaSchema = NoSchema
  /\ database = ""
  /\ modelsToProcess = <<>>
  /\ jsonSchema = NoJsonSchema
  /\ at = "start"

NextPipeline ==
  \/ LoadSchemas
  \/ NewService
  \/ Generate
  \/ SkipGenerated
  \/ BeginGenerated
  \/ Connect
  \/ ConnectFail
  \/ ProbeFound
  \/ ProbeMissing
  \/ ProbeUnreachable
  \/ NotFound
  \/ Find
  \/ Read
  \/ ReadFail
  \/ Update
  \/ UpdateFail
  \/ UpdateFailAfterWrite
  \/ Close

Pipeline == InitPipeline /\ [][NextPipeline]_vars

\* ------------------------------- specification of the parser's inputs
\* The backfill command run on schema files of every shape.
InitParsing ==
  /\ argv = PlainArgv
  /\ schemaContent \in OddContents
  /\ store = UserStore
  /\ connOpen = FALSE
  /\ pc = "idle"
  /\ model = [name |-> "", mapName |-> NoMap]
  /\ schema = NoUpdate
  /\ todo = <<>>
  /\ collection = NoColl
  /\ cursor = 0
  /\ doc = NoDoc
  /\ update = NoUpdate
  /\ updatedCount = 0
  /\ outcome = "none"
  /\ reported = 0
  /\ calls = 0
  /\ aborted = FALSE
  /\ before = store
  /\ probed = <<>>
  /\ lost = FALSE
  /\ applied = <<>>
  /\ hist = <<>>
  /\ lastOp = NoOp
  /\ prior = "other"
  /\ prismaSchema = NoSchema
  /\ database = ""
  /\ modelsToProcess = <<>>
  /\ jsonSchema = NoJsonSchema
  /\ at = "start"

Parsing == InitParsing /\ [][NextPipeline]_vars

\* ------------------------------------------------------------- claims
\* A stored value that is present and neither null nor undefined.
Filled(v) == v \notin {Absent, Null, Undefined}

\* The defaulted fields of schema s that document d lacks: absent, null or
\* undefined.
Gaps(s, d) ==
  { x \in Fields : s[x].default # Undefined /\ ~Filled(d.f[x]) }

\* The call is over and ran to its completion message.
Completed == pc = "idle" /\ outcome = "completed"

\* C1: in the resolved collection, a defaulted field that held a value
\* other than null or undefined when the call began (0, false and "" too)
\* holds the same value at every later point of the call and after it.
C1_PresentValuesKept ==
  collection # NoColl =>
    \A i \in DOMAIN before[collection] :
      \A x \in Fields :
        (schema[x].default # Undefined /\ Filled(before[collection][i].f[x]))
          => store[collection][i].f[x] = before[collection][i].f[x]

\* A completed call that updated a record holding a falsy value in a
\* defaulted field.
C1_Witness ==
  /\ Completed
  /\ \E i \in DOMAIN before[collection] :
       /\ store[collection][i] # before[collection][i]
       /\ \E x \in Fields :
            /\ schema[x].default # Undefined
            /\ before[collection][i].f[x] \in {Zero, False, Empty}

\* C2: every update applied sets exactly the defaulted fields that the
\* record lacked, each to its default, and leaves the record's other fields
\* alone; a record handed out by the cursor that lacked none receives no
\* update; on completion every record that lacked one has received its own.
C2_UpdateIsExactlyTheGaps ==
  collection # NoColl =>
    /\ \A k \in DOMAIN applied :
         LET d == applied[k].doc
             u == applied[k].update
         IN /\ d = before[collection][d.id]
            /\ DOMAIN u = Gaps(schema, d)
            /\ DOMAIN u # {}
            /\ \A x \in DOMAIN u : u[x] = schema[x].default
            /\ \A x \in Fields :
                 store[collection][d.id].f[x] =
                   IF x \in Gaps(schema, d)
                   THEN schema[x].default ELSE d.f[x]
            /\ \A j \in DOMAIN applied : applied[j].doc.id = d.id => j = k
    /\ \A i \in DOMAIN before[collection] :
         LET d == before[collection][i]
             got == \E k \in DOMAIN applied : applied[k].doc.id = d.id
         IN /\ Gaps(schema, d) = {} =>
                 (~got /\ store[collection][i] = d)
            /\ (Completed /\ Gaps(schema, d) # {}) => got

\* A completed call that updated one record in part (one field set, one
\* kept) and passed over another.
C2_Witness ==
  /\ Completed
  /\ \E k \in DOMAIN applied :
       /\ DOMAIN applied[k].update # Fields
       /\ Filled(applied[k].doc.f["a"]) \/ Filled(applied[k].doc.f["b"])
  /\ \E i \in DOMAIN before[collection] :
       Gaps(schema, before[collection][i]) = {}

\* C3: a call that repeats the call right before it, which completed, with
\* no store operation failing in either, changes no record (so every value
\* set before stays) and reports zero modified records.
C3_SecondRunModifiesNothing ==
  (prior = "repeat" /\ ~lost) =>
    /\ store = before
    /\ Completed => reported = 0

\* C4: whenever no call is running, the connection is released.
C4_ConnectionReleasedOnEveryExit ==
  pc = "idle" => ~connOpen


\* p is an initial segment of q.
IsPrefix(p, q) == Len(p) <= Len(q) /\ SubSeq(q, 1, Len(p)) = p

\* The call has been in state ph.
InHist(ph) == \E i \in DOMAIN hist : hist[i] = ph

\* The paths of the state machine as the claim draws it.
ClaimedPaths ==
  { << "Idle", "Connected", "CollectionResolved", "Streaming", "Closed" >>,
    << "Idle", "Connected", "Closed" >>,
    << "Idle", "Connected", "CollectionResolved", "Closed" >> }

\* The paths with the no-defaults exit leaving from Idle and the two exits
\* by an error.
ActualPaths ==
  { << "Idle", "Connected", "CollectionResolved", "Streaming", "Closed" >>,
    << "Idle", "Closed" >>,
    << "Idle", "Connected", "CollectionResolved", "Closed" >>,
    << "Idle", "Failed" >>,
    << "Idle", "Connected", "CollectionResolved", "Streaming", "Failed" >> }

\* The call follows one of paths, and has followed one to its end once it
\* is over.
Follows(paths) ==
  hist # <<>> =>
    /\ \E q \in paths : IsPrefix(hist, q)
    /\ pc = "idle" => hist \in paths

\* No probe, read or update runs before the connection is open, no read or
\* update before a collection is resolved, nothing after Closed.
OperationsInOrder ==
  /\ lastOp.kind \in {"probe", "read", "update", "close"} => lastOp.open
  /\ lastOp.kind \in {"read", "update"} => lastOp.resolved
  /\ InHist("Closed") => (pc = "idle" /\ ~connOpen)

\* C5 as stated: the only early exits are to Closed from Connected and from
\* CollectionResolved.
C5_ClaimedStateMachine == Follows(ClaimedPaths) /\ OperationsInOrder

\* C5, amended: each call starts Idle and goes through Connected,
\* CollectionResolved, Streaming, Closed in that order; it leaves early to
\* Closed from Idle when no field carries a default (before it connects),
\* to Closed from CollectionResolved when the collection is absent, and by
\* an error from Idle (connect fails) or from Streaming (a read or an update
\* fails); no probe, read or update runs before the connection is open, no
\* read or update before a collection is resolved, nothing after Closed.
C5_StateMachine ==
  /\ Follows(ActualPaths)
  /\ hist = << "Idle", "Closed" >>
       => \A x \in Fields : schema[x].default = Undefined
  /\ hist = << "Idle", "Connected", "CollectionResolved", "Closed" >>
       => collection = NoColl
  /\ OperationsInOrder

\* A call that went through every state and updated a record on the way.
C5_Witness ==
  /\ hist = << "Idle", "Connected", "CollectionResolved", "Streaming",
               "Closed" >>
  /\ applied # <<>>
  /\ lastOp.kind = "close"

\* C6: a call with a schema in which no property carries a default ends
\* at once as skipped: the store is as it was, no store operation ran, no
\* error left the call and no connection is open.
C6_NoDefaultsIsNoOp ==
  (outcome # "none" /\ \A x \in Fields : schema[x].default = Undefined) =>
    /\ pc = "idle"
    /\ outcome = "skipped"
    /\ store = before
    /\ lastOp = NoOp
    /\ probed = <<>>
    /\ applied = <<>>
    /\ ~aborted
    /\ ~connOpen

\* A skipped call over a store whose documents lack fields.
C6_Witness ==
  /\ outcome = "skipped"
  /\ model.name = "UserProfile"
  /\ \E c \in DOMAIN store : \E i \in DOMAIN store[c] :
       store[c][i].f["a"] = Absent

\* The names probed so far, in order.
ProbedNames == [i \in DOMAIN probed |-> probed[i].name]

\* The candidate list read off the claim: the override when there is one,
\* then the five forms of the record type's name.
ClaimedCandidates(m) ==
  Dedup((IF m.mapName # NoMap THEN << m.mapName >> ELSE <<>>)
        \o << toLowerCase(m.name),
              plural(m.name),
              plural(toLowerCase(m.name)),
              kebabCase(m.name),
              plural(kebabCase(m.name)) >>)

\* The candidate list of the amended claim: the effective name (the
\* override when there is one, else the declared name) as written, then its
\* five forms.
EffectiveCandidates(m) ==
  LET e == IF m.mapName # NoMap THEN m.mapName ELSE m.name
  IN Dedup(<< e,
              toLowerCase(e),
              plural(e),
              plural(toLowerCase(e)),
              kebabCase(e),
              plural(kebabCase(e)) >>)

\* Probes go down the list cand; each probe before the last failed, the
\* selected collection is the one whose probe answered, no name is probed
\* twice, and resolution gives up only after the whole list.
ResolvesAlong(cand) ==
  /\ IsPrefix(ProbedNames, cand)
  /\ \A i \in DOMAIN probed : i < Len(probed) => ~probed[i].ok
  /\ \A i, j \in DOMAIN probed : probed[i].name = probed[j].name => i = j
  /\ collection # NoColl =>
       /\ probed # <<>>
       /\ probed[Len(probed)].ok
       /\ probed[Len(probed)].name = collection
       /\ collection \in DOMAIN store
  /\ (InHist("CollectionResolved") /\ collection = NoColl) =>
       /\ ProbedNames = cand
       /\ \A i \in DOMAIN probed : ~probed[i].ok

Forms(n) ==
  { n, toLowerCase(n), plural(n), plural(toLowerCase(n)), kebabCase(n),
    plural(kebabCase(n)) }

\* Resolution is over, no probe lost the store, the record type has no
\* override and the store holds one collection, named by one of the forms.
OneMatchingCollection ==
  /\ InHist("CollectionResolved")
  /\ ~lost
  /\ model.mapName = NoMap
  /\ \E c \in Forms(model.name) : DOMAIN store = {c}

UserProfileCase ==
  /\ OneMatchingCollection
  /\ model.name = "UserProfile"
  /\ DOMAIN store = {"user-profiles"}

C9_NotFoundIsRecoverable ==
  /\ (pc = "idle" /\ InHist("CollectionResolved") /\ collection = NoColl)
       => outcome = "notfound"
  /\ outcome = "notfound" =>
       /\ pc = "idle"
       /\ store = before
       /\ applied = <<>>
       /\ ~connOpen
       /\ ~aborted
       /\ calls < MaxCalls => ENABLED Begin

\* The call after one that found no collection in a store that has some.
C9_Witness ==
  /\ prior = "notfound"
  /\ pc = "connect"
  /\ DOMAIN store # {}

\* C10: a call in which a store operation met a connectivity failure ends
\* by an error, never as not found or completed.
C10_ConnectivityFailurePropagates ==
  (pc = "idle" /\ lost) => outcome = "error"

\* Record d with every defaulted field it lacked set to its default.
FullyUpdated(s, d) ==
  [d EXCEPT !.f = [x \in Fields |->
                     IF x \in Gaps(s, d) THEN s[x].default ELSE d.f[x]]]

\* The call ended by an error of a cursor read or of an update.
StreamFailed ==
  pc = "idle" /\ outcome = "error" /\ lastOp.kind \in {"read", "update"}

\* C11: when a cursor read or an update fails, the call ends there by an
\* error that ends the command (nothing catches it, no operation is tried
\* again); every record updated before the failure holds its whole update,
\* every other record is as it was when the call began (no record holds a
\* part of its update), records the cursor had not reached and the other
\* collections are unchanged.
C11_MidStreamFailureKeepsApplied ==
  StreamFailed =>
    /\ aborted
    /\ ~ENABLED Next
    /\ \A i \in DOMAIN before[collection] :
         LET d == before[collection][i]
             now == store[collection][i]
             got == \E k \in DOMAIN applied : applied[k].doc.id = d.id
         IN /\ now \in {d, FullyUpdated(schema, d)}
            /\ got => now = FullyUpdated(schema, d)
            /\ ~got => now = d
            /\ i > cursor => (~got /\ now = d)
    /\ \A j, k \in DOMAIN applied :
         applied[j].doc.id = applied[k].doc.id => j = k
    /\ \A c \in DOMAIN store : c # collection => store[c] = before[c]

\* A read failed after a record received an update of two fields, with a
\* record still ahead of the cursor.
C11_Witness ==
  /\ StreamFailed
  /\ lastOp.kind = "read"
  /\ \E k \in DOMAIN applied : DOMAIN applied[k].update = Fields
  /\ cursor < Len(store[collection])

\* The records the cursor has handed out whose update, when they need
\* one, is no longer outstanding.
Settled ==
  { i \in 1..cursor : i < cursor \/ pc = "stream" \/ Completed }

\* C12, the state part: a call in progress has exactly one operation
\* outstanding, the one its position names; every record handed out
\* before the current one holds its update in the store, the updates were
\* applied in the order of the reads, and the pending update is that of
\* the record read last.
C12_OneAtATime ==
  /\ pc \in {"idle", "connect", "probe", "resolved", "stream", "update"}
  /\ pc # "idle" => outcome = "running"
  /\ (collection # NoColl /\ pc \in {"stream", "update", "idle"}) =>
       /\ cursor <= Len(before[collection])
       /\ \A i \in Settled :
            store[collection][i] = FullyUpdated(schema, before[collection][i])
       /\ \A j, k \in DOMAIN applied :
            j < k => applied[j].doc.id < applied[k].doc.id
       /\ \A k \in DOMAIN applied : applied[k].doc.id <= cursor
  /\ pc = "update" =>
       /\ doc = before[collection][cursor]
       /\ update = buildUpdate(schema, doc)
       /\ DOMAIN update # {}
       /\ \A k \in DOMAIN applied : applied[k].doc.id < cursor

\* C12, the step part: a call begins only when none is running and the
\* one before it has returned; a step of a running call completes one
\* operation, and the cursor advances by one record at a time, never while
\* an update is pending.
C12_OneStepAtATime ==
  /\ (pc = "idle" /\ pc' # "idle") =>
       (outcome # "running" /\ pc' = "connect" /\ calls' = calls
        /\ lastOp' = NoOp /\ applied' = <<>> /\ cursor' = 0)
  /\ calls' # calls => (calls' = calls + 1 /\ pc' = "idle")
  /\ cursor' # cursor =>
       (pc = "idle" \/ (pc = "stream" /\ cursor' = cursor + 1))
  /\ store' # store => (pc = "update" /\ pc' \in {"stream", "idle"})

\* C12: at most one store operation of the pipeline is outstanding at any
\* moment: each update has completed before the next record is read, and
\* a call has returned before the next call begins.
C12_Sequential == []C12_OneAtATime /\ [][C12_OneStepAtATime]_vars

\* The second call of the command is about to update its second record,
\* after a first call that completed with updates of its own.
C12_Witness ==
  /\ calls = 1
  /\ outcome = "running"
  /\ pc = "update"
  /\ cursor = 2
  /\ applied # <<>>
  /\ store # before

\* The records of the resolved collection whose stored content differs
\* from what it was when the call began.
Changed ==
  { i \in DOMAIN before[collection] :
      store[collection][i] # before[collection][i] }

\* C19: on completion the count reported equals the number of records of
\* the resolved collection whose stored content the call changed.
C19_CountIsRecordsChanged ==
  (Completed /\ collection # NoColl) => reported = Cardinality(Changed)

\* The value a stored record holds under a field.
ValueAt(record, x) == IF x \in DOMAIN record.f THEN record.f[x] ELSE Absent

\* What a step leaves of the store: the collections, the records of each
\* and their identities; a field of a record changes only in the step that
\* applies the update document, in the resolved collection, in the record
\* just read, when the update document names it and its property carries a
\* default, and it changes to the value the update document gives.
StoreFrame ==
  /\ DOMAIN store' = DOMAIN store
  /\ \A c \in DOMAIN store :
       /\ Len(store'[c]) = Len(store[c])
       /\ \A i \in DOMAIN store[c] :
            /\ store'[c][i].id = store[c][i].id
            /\ \A x \in DOMAIN store[c][i].f \cup DOMAIN store'[c][i].f :
                 ValueAt(store'[c][i], x) # ValueAt(store[c][i], x) =>
                   /\ pc = "update"
                   /\ c = collection
                   /\ store[c][i].id = doc.id
                   /\ x \in DOMAIN update
                   /\ x \in fieldsWithDefaults(schema)
                   /\ ValueAt(store'[c][i], x) = update[x]

\* C23: backfillCollection changes nothing in the store except the fields
\* named in a record's update document, on that record: no step inserts or
\* deletes a record, changes an identity, writes a field whose property
\* carries no default, writes to another record than the one just read or
\* to another collection than the resolved one.
C23_StoreFrame == [][StoreFrame]_vars

\* An update was applied to the second of two records while another
\* collection holds records too; one field of the record was written and
\* another was not.
C23_Witness ==
  /\ lastOp.kind = "update"
  /\ store # before
  /\ Cardinality(DOMAIN store) > 1
  /\ Len(store[collection]) > 1
  /\ store[collection][1] = before[collection][1]
  /\ store[collection][2] # before[collection][2]
  /\ \E x \in DOMAIN store[collection][2].f :
       /\ x \notin DOMAIN update
       /\ Filled(store[collection][2].f[x])

\* A step that moves the cursor hands out the record that comes next in
\* the collection as it was when the call began.
ReadsNext ==
  (pc = "stream" /\ cursor' # cursor) =>
    /\ cursor' = cursor + 1
    /\ cursor' <= Len(before[collection])
    /\ doc'.id = before[collection][cursor'].id

\* C26: against a store whose operations all answer and to which nobody
\* adds records, a call that has begun ends without an error; a scan hands
\* out the records of the resolved collection one after the other, each
\* once, and when it has completed it has handed out every record the
\* collection held when the call began, and the connection is closed.
C26_ScanTerminates ==
  /\ [][ReadsNext]_vars
  /\ [](Completed => cursor = Len(before[collection]))
  /\ (pc # "idle") ~> (pc = "idle" /\ outcome \in {"completed", "notfound"})
  /\ (pc \in {"stream", "update"}) ~> (Completed /\ ~connOpen)

\* A scan of a collection of two records that completed and updated both.
C26_Witness ==
  /\ Completed
  /\ cursor = 2
  /\ Len(before[collection]) = 2
  /\ Len(applied) = 2

\* The update step finds every field it sets absent, null or undefined in
\* the record as the store holds it.
AppliesToGaps ==
  (pc = "update" /\ pc' = "stream") =>
    \A i \in DOMAIN store[collection] :
      store[collection][i].id = doc.id =>
        \A x \in DOMAIN update : ~Filled(store[collection][i].f[x])

\* C27: a value another client writes to a defaulted field between the
\* read of a record and its update is not replaced by the default: at the
\* moment an update is applied, every field it sets is absent or null in
\* the stored record.
C27_UpdateSparesLaterWrites == [][AppliesToGaps]_vars

\* The record type of the call has a storage-name override and a probe
\* has been made.
ProbedWithOverride == model.mapName # NoMap /\ probed # <<>>

Generated == jsonSchema # NoJsonSchema

GeneratedName ==
  IF at = "call" THEN Head(modelsToProcess).name ELSE model.name

\* The field lines of that model in the schema files.
GeneratedLines ==
  LET b == CHOOSE i \in DOMAIN schemaContent.models :
             schemaContent.models[i].name = GeneratedName
  IN schemaContent.models[b].lines

\* That model as parsed.
GeneratedModel ==
  LET b == CHOOSE i \in DOMAIN prismaSchema.models :
             prismaSchema.models[i].name = GeneratedName
  IN prismaSchema.models[b]

\* The line carries a ? somewhere: after its type or within an attribute.
WrittenOptional(line) ==
  line.q \/ \E i \in DOMAIN line.attrs : includes(attrText(line.attrs[i]), "?")

WrittenIdentity(line) == \E i \in DOMAIN line.attrs : line.attrs[i].at = "id"

\* The entries of a list.
Range(seq) == { seq[i] : i \in DOMAIN seq }

\* The fields of the source that pass test(line, field).
SourceFields(test(_, _)) ==
  { GeneratedLines[i].name :
      i \in { k \in DOMAIN GeneratedLines :
                test(GeneratedLines[k], GeneratedModel.fields[k]) } }

\* parse returns one field for each line, in order, under the line's name.
EveryLineParsed ==
  /\ Len(GeneratedModel.fields) = Len(GeneratedLines)
  /\ \A i \in DOMAIN GeneratedLines :
       GeneratedModel.fields[i].name = GeneratedLines[i].name

NoDuplicates(seq) == \A i, j \in DOMAIN seq : seq[i] = seq[j] => i = j

\* C13: the required list of generateSchema applied to the output of parse
\* holds, once each, exactly the fields of the source that are not optional
\* (no ? on their line), have no resolved default and are not arrays; the
\* identity fields, which generateSchema leaves out of the schema
\* altogether, are not counted among them.
C13_RequiredList ==
  Generated =>
    /\ EveryLineParsed
    /\ NoDuplicates(jsonSchema.required)
    /\ Range(jsonSchema.required) =
         SourceFields(LAMBDA line, field :
           /\ ~WrittenIdentity(line)
           /\ ~WrittenOptional(line)
           /\ field.defaultValue = Undefined
           /\ ~line.array)

\* C14: no field whose line carries @id is a key of the generated schema's
\* properties or an entry of its required list, and no field the parser
\* marked as identity is.
C14_IdentityFieldsLeftOut ==
  Generated =>
    /\ \A i \in DOMAIN GeneratedLines :
         WrittenIdentity(GeneratedLines[i]) =>
           /\ GeneratedLines[i].name \notin DOMAIN jsonSchema.properties
           /\ GeneratedLines[i].name \notin Range(jsonSchema.required)
    /\ \A i \in DOMAIN GeneratedModel.fields :
         GeneratedModel.fields[i].isId =>
           /\ GeneratedModel.fields[i].name \notin DOMAIN jsonSchema.properties
           /\ GeneratedModel.fields[i].name \notin Range(jsonSchema.required)

\* The call was made with a schema generated from an identity field next
\* to a field that stays as a property.
C14_Witness ==
  /\ Generated
  /\ at = "loop"
  /\ DOMAIN jsonSchema.properties # {}
  /\ \E i \in DOMAIN GeneratedLines : WrittenIdentity(GeneratedLines[i])

\* A run of digits without its leading zeros, the last digit kept.
RECURSIVE Numeral(_)
Numeral(str) ==
  IF Len(str) > 1 /\ Head(str) = "0" THEN Numeral(Tail(str)) ELSE str

\* The digits after the point without those that add nothing.
RECURSIVE Fraction(_)
Fraction(str) ==
  IF str # <<>> /\ str[Len(str)] = "0"
  THEN Fraction(SubSeq(str, 1, Len(str) - 1)) ELSE str

\* The value a literal payload denotes, in its native type.
WrittenValue(p) ==
  CASE p.kind = "string" -> Val("string", Join(p.a))
    [] p.kind = "boolean" -> Val("boolean", Join(p.a))
    [] p.kind = "int" -> Val("number", Join(Numeral(p.a)))
    [] p.kind = "decimal" ->
         Val("number", IF Fraction(p.b) = <<>> THEN Join(Numeral(p.a))
                       ELSE Join(Numeral(p.a) \o << "." >> \o Fraction(p.b)))

\* The lines of all models whose @default carries a payload that passes
\* test, each with the field parsed from it.
DefaultsWritten(test(_)) ==
  UNION { UNION { { << schemaContent.models[b].lines[i].attrs[k].p,
                       prismaSchema.models[b].fields[i] >> :
                      k \in { n \in DOMAIN schemaContent.models[b].lines[i].attrs :
                               LET attr == schemaContent.models[b].lines[i].attrs[n]
                               IN attr.at = "default" /\ test(attr.p) } } :
                  i \in DOMAIN schemaContent.models[b].lines } :
          b \in DOMAIN schemaContent.models }

Parsed == prismaSchema # NoSchema

\* C15: a @default payload written as a double-quoted string, true or
\* false, an integer literal or a decimal literal resolves to the value
\* written, in its native type.
C15_LiteralDefaultsResolved ==
  Parsed =>
    \A pf \in DefaultsWritten(LAMBDA p :
                p.kind \in {"string", "boolean", "int", "decimal"}) :
      pf[2].defaultValue = WrittenValue(pf[1])

\* The field of the model at hand is never written by backfill.
NeverWritten(name) ==
  /\ name \notin DOMAIN update
  /\ \A k \in DOMAIN applied : name \notin DOMAIN applied[k].update
  /\ collection # NoColl =>
       \A i \in DOMAIN before[collection] :
         /\ name \in DOMAIN store[collection][i].f
              <=> name \in DOMAIN before[collection][i].f
         /\ name \in DOMAIN store[collection][i].f =>
              store[collection][i].f[name] = before[collection][i].f[name]

\* The lines of the model at hand whose @default payload passes test.
LinesWithDefault(test(_)) ==
  { l \in Range(GeneratedLines) :
      \E k \in DOMAIN l.attrs : l.attrs[k].at = "default" /\ test(l.attrs[k].p) }

\* The default of such a payload is absent: from the parsed field, from the
\* generated property, and backfill does not write the field.
ResolvesToAbsent(test(_)) ==
  /\ Parsed =>
       \A pf \in DefaultsWritten(test) : pf[2].defaultValue = Undefined
  /\ (Generated /\ at \in {"call", "loop"}) =>
       \A l \in LinesWithDefault(test) :
         /\ l.name \in DOMAIN jsonSchema.properties =>
              jsonSchema.properties[l.name].default = Undefined
         /\ (at = "loop" /\ model.name = GeneratedName) => NeverWritten(l.name)

\* C16 as stated: every payload in which "(" occurs resolves to absent.
C16_ClaimedEveryParenthesis ==
  ResolvesToAbsent(LAMBDA p : includes(payloadText(p), "("))

\* C16, amended: a @default payload that is not written as a double-quoted
\* string and contains "(" resolves to absent: the field parsed has no
\* default, the generated property carries none, and backfill never writes
\* that field.
C16_CallsResolveToAbsent ==
  ResolvesToAbsent(LAMBDA p : p.kind # "string" /\ includes(payloadText(p), "("))

\* A completed backfill that wrote a literal default next to a field whose
\* default is a call.
C16_Witness ==
  /\ Completed
  /\ at = "loop"
  /\ applied # <<>>
  /\ LinesWithDefault(LAMBDA p : p.kind = "call") # {}
  /\ LinesWithDefault(LAMBDA p : p.kind = "boolean") # {}

\* The type tag the claim gives a type name.
ClaimedTag(t) ==
  CASE t \in {"String", "DateTime", "Bytes"} -> "string"
    [] t \in {"Int", "Float"} -> "number"
    [] t = "Boolean" -> "boolean"
    [] t = "Json" -> "object"
    [] t \in { schemaContent.enums[i].name : i \in DOMAIN schemaContent.enums }
         -> "string"
    [] t \in { schemaContent.models[i].name : i \in DOMAIN schemaContent.models }
         -> "object"
    [] OTHER -> "string"

\* The labels of the enum of that name, in order.
ClaimedValues(t) ==
  LET e == CHOOSE i \in DOMAIN schemaContent.enums : schemaContent.enums[i].name = t
      labels == SelectSeq(schemaContent.enums[e].lines, LAMBDA l : l.label # "")
  IN [i \in DOMAIN labels |-> labels[i].label]

\* C17: the property generated for a field carries the tag of the field's
\* type name (as the type of its items when the field is an array), the
\* format date-time for DateTime, the value list for an enum.
C17_TypeTags ==
  Generated =>
    \A l \in Range(GeneratedLines) :
      l.name \in DOMAIN jsonSchema.properties =>
        LET property == jsonSchema.properties[l.name]
        IN /\ IF l.array
              THEN property.type = "array" /\ property.items = ClaimedTag(l.type)
              ELSE property.type = ClaimedTag(l.type)
           /\ l.type = "DateTime" => property.format = "date-time"
           /\ l.type \in { schemaContent.enums[i].name :
                             i \in DOMAIN schemaContent.enums }
                => property.enum = ClaimedValues(l.type)

\* The schema the claim gives for User.
UserSchema ==
  [ type |-> "object",
    properties |->
      [ n \in {"email", "isActive", "createdAt"} |->
          CASE n = "email" ->
                 [type |-> "string", items |-> NoItems, default |-> Undefined,
                  format |-> NoFormat, enum |-> NoEnum]
            [] n = "isActive" ->
                 [type |-> "boolean", items |-> NoItems, default |-> True,
                  format |-> NoFormat, enum |-> NoEnum]
            [] n = "createdAt" ->
                 [type |-> "string", items |-> NoItems, default |-> Undefined,
                  format |-> "date-time", enum |-> NoEnum] ],
    required |-> << "email", "createdAt" >> ]

\* The schema files hold model User of the example and the schema at hand
\* is User's.
UserCase ==
  /\ schemaContent = SchemaContent(UserLines)
  /\ Generated
  /\ GeneratedName = "User"

\* C18: for model User of the example the generated schema has the
\* properties email (string, required), isActive (boolean, default true)
\* and createdAt (string, format date-time, no default, required) and no
\* property id; a backfill that completes against the store whose only
\* record is { _id: 1, email: "a@b.com" } leaves that record with isActive
\* set to true and nothing else changed, and reports one record.
C18_UserEndToEnd ==
  UserCase =>
    /\ jsonSchema = UserSchema
    /\ (at = "loop" /\ Completed /\ before = UserStore) =>
         /\ store = [c \in {"users"} |->
                       << [id |-> 1,
                           f |-> [email |-> Val("string", "a@b.com"),
                                  isActive |-> True]] >>]
         /\ reported = 1

\* The generate-and-backfill command completed its call for User against
\* the store of the one record.
C18_Witness ==
  /\ UserCase
  /\ argv.command = "generate-and-backfill"
  /\ at = "loop"
  /\ Completed
  /\ before = UserStore
  /\ store # before

\* The connection string of the command line, or the default.
ConnectionString ==
  IF argv.connection # NotGiven THEN argv.connection ELSE DefaultConnection

\* The text after the last slash.
RECURSIVE AfterLastSlash(_)
AfterLastSlash(str) ==
  IF str = <<>> \/ str[Len(str)] = "/" THEN <<>>
  ELSE Append(AfterLastSlash(SubSeq(str, 1, Len(str) - 1)), str[Len(str)])

\* C20: for both commands the database name handed to the Backfill Engine
\* is the text after the last slash of the connection string when
\* --database is not given, and the flag's value when it is.
C20_DatabaseName ==
  at \in {"loop", "call", "done"} =>
    database = IF argv.database = NotGiven
               THEN Join(AfterLastSlash(ConnectionString))
               ELSE argv.database

\* ------------------------------------------- claims about the parser
\* The names of the fields of a parsed model, in order.
FieldNames(m) == [i \in DOMAIN m.fields |-> m.fields[i].name]

\* C21: in every schema parse returns, no model holds two fields of the
\* same name, whatever the text.
C21_FieldNamesUnique ==
  Parsed =>
    \A b \in DOMAIN prismaSchema.models :
      NoDuplicates(FieldNames(prismaSchema.models[b]))

\* The line declares a field.
Declares(line) == "raw" \notin DOMAIN line

\* The names the lines of a block declare, in order.
DeclaredNames(block) ==
  LET declared == SelectSeq(block.lines, Declares)
  IN [i \in DOMAIN declared |-> declared[i].name]

\* Every model block of the schema files has its closing brace.
AllClosed ==
  \A b \in DOMAIN schemaContent.models : "open" \notin DOMAIN schemaContent.models[b]

\* C22: for each model block, the fields of the parsed model are the field
\* declarations among the block's lines, one field for each, in the order
\* of the lines, whatever the names declared are.
C22_EveryDeclarationParsed ==
  (Parsed /\ AllClosed) =>
    /\ Len(prismaSchema.models) = Len(schemaContent.models)
    /\ \A b \in DOMAIN schemaContent.models :
         FieldNames(prismaSchema.models[b]) = DeclaredNames(schemaContent.models[b])

\* A line of another shape than a field declaration, a comment, a directive
\* or an empty line.
Malformed(line) ==
  /\ ~Declares(line)
  /\ line.raw # <<>>
  /\ ~startsWith(line.raw, << "/", "/" >>)
  /\ ~startsWith(line.raw, << "@", "@" >>)

\* The schema files without their malformed parts: the model blocks that
\* have their closing brace, without their malformed lines.
WellFormed(file) ==
  LET closed == SelectSeq(file.models, LAMBDA block : "open" \notin DOMAIN block)
  IN [ enums |-> file.enums,
       models |-> [b \in DOMAIN closed |->
                     [closed[b] EXCEPT !.lines =
                        SelectSeq(@, LAMBDA line : ~Malformed(line))]] ]

\* C25: parse returns a schema for every text, and the schema is the one
\* it returns for the text without its malformed blocks and lines: these
\* add no model, no enum and no field, and change nothing in what the
\* well-formed blocks and lines around them give.
C25_MalformedPartsSkipped ==
  Parsed =>
    /\ DOMAIN prismaSchema = {"models", "enums"}
    /\ prismaSchema = parse(readFileSync(WellFormed(schemaContent)))

\* C30: each name in the required list of a generated schema occurs there
\* once and is a key of properties, and the property under that name
\* carries no default and is not of type array.
C30_RequiredListSound ==
  Generated =>
    /\ NoDuplicates(jsonSchema.required)
    /\ \A i \in DOMAIN jsonSchema.required :
         LET name == jsonSchema.required[i]
         IN /\ name \in DOMAIN jsonSchema.properties
            /\ jsonSchema.properties[name].default = Undefined
            /\ jsonSchema.properties[name].type # "array"

\* ---------------------------------------- claims about array fields
\* The schema generated for model User of schema files whose block of User
\* holds lines.
SchemaOf(lines) ==
  LET parsed == parse(readFileSync(SchemaContent(lines)))
  IN generateSchema(parsed, parsed.models[1])

\* The declaration of the same field without its [].
Scalar(line) == [line EXCEPT !.array = FALSE]

\* C24: the property generated for an array field has type array, and its
\* items carry the type tag that the property of the same declaration
\* without [] has (for a primitive, an enum, a model or any other type
\* name); the field is not in the required list.
C24_ArrayFields ==
  Generated =>
    \A l \in Range(GeneratedLines) :
      l.array =>
        /\ l.name \notin Range(jsonSchema.required)
        /\ l.name \in DOMAIN jsonSchema.properties =>
             /\ jsonSchema.properties[l.name].type = "array"
             /\ jsonSchema.properties[l.name].items =
                  SchemaOf(<< Scalar(l) >>).properties[l.name].type

\* A schema generated from an array of an enum next to a required field,
\* and handed to the call.
C24_Witness ==
  /\ Generated
  /\ at = "loop"
  /\ jsonSchema.required # <<>>
  /\ \E l \in Range(GeneratedLines) :
       /\ l.array
       /\ l.type = "Role"
       /\ l.name \in DOMAIN jsonSchema.properties
       /\ jsonSchema.properties[l.name].items = "string"

\* -------------------------------- claims about the type of defaults
\* C29: in every schema generated from parsed schema text, the default of a
\* property has the native type the property's type tag names, and so has
\* every value backfill writes.
C29_DefaultsAgreeWithType ==
  /\ Generated =>
       \A name \in DOMAIN jsonSchema.properties :
         jsonSchema.properties[name].default # Undefined =>
           jsonSchema.properties[name].default.t = jsonSchema.properties[name].type
  /\ at \in {"loop", "done"} =>
       \A k \in DOMAIN applied :
         \A name \in DOMAIN applied[k].update :
           applied[k].update[name].t = schema[name].type

====
